---- MODULE Spec2Model ----
(***************************************************************************)
(* Model of the Poco CAN session layer (poco_can/poco_can_interface.py)    *)
(* and of the decoders it calls (poco_can/poco_can_protocol.py).           *)
(*                                                                         *)
(* A session owns a bus, at most one notifier, three caches and four       *)
(* observer lists.  The transport (python-can Bus and Notifier) is the     *)
(* environment: a Notifier owns one reader thread that takes frames from   *)
(* the bus and calls the listeners it was created with, one frame at a     *)
(* time; Notifier.stop() asks the thread to end and joins it.              *)
(*                                                                         *)
(* Bytes are naturals 0..255, payloads are sequences of bytes (index i of  *)
(* the source is position i+1 here).  A Python dict is a function whose    *)
(* DOMAIN is the set of keys present.  An Optional value is a sequence of  *)
(* length 0 (None) or 1.                                                   *)
(***************************************************************************)
EXTENDS Integers, Sequences, FiniteSets, TLC

\* ------------------------------------------------------------------------
\* Bounds of the model
\* ------------------------------------------------------------------------
NumCallbacks == 2     \* distinct observer functions the application owns
MaxBuses == 2         \* connect() calls explored
MaxNotifiers == 2     \* start_listener() calls explored

\* ------------------------------------------------------------------------
\* Protocol constants (poco_can_protocol.py)
\* ------------------------------------------------------------------------
NMEA2K_MANUFACTURER_LUMITEC == 1512
NMEA2K_INDUSTRY_MARINE == 4
PGN_PROPRIETARY_SINGLE_FRAME == 61184
PGN_BINARY_SWITCH_STATUS == 127501
PGN_BINARY_SWITCH_CONTROL == 127502

VSW_SIMPLE_ACTIONS == 1
VSW_STATE == 2
OUTPUTCH_STATUS == 32
ENUMERATE_RESPONSE == 129

NO_ACTION == 0
OFF == 1
ON == 2
DIM_DOWN == 3
DIM_UP == 4
T2BD == 5
POCOFX_START == 6
POCOFX_PAUSE == 7
T2RGB == 11
TOGGLE == 32
T2HSB == 8
T2HS == 9
T2B == 10

VSW_CUSTOM_HSB == 3
VSW_POCOFX_ID == 4
VSW_CUSTOM_RGB == 5
VSW_DELTABRIGHT == 6
OUTPUTCH_BIN_ONOFF == 33
OUTPUTCH_PWM_DUTY == 34
OUTPUTCH_PLI_RAW == 36
OUTPUTCH_STATUS_REQUEST == 39
OUTPUTCH_PLI_T2HSB == 40
OUTPUTCH_PLI_T2RGB == 41
OUTPUTCH_PLI_T2HS == 42
OUTPUTCH_PLI_T2B == 43
OUTPUTCH_PLI_T2BD == 44
OUTPUTCH_PLI_T2P == 45
ENUMERATE_REQUEST == 128

ColorNONE == 0
HUE_SAT == 1
CCT == 2
FX_ID == 3
MUTEX == 5

BROADCAST == 255           \* poco_address default, "0xFF for broadcast"
DEFAULT_SOURCE == 253      \* source_address default

None == << >>
Some(x) == << x >>

\* data[i] of the source (0-based)
B(data, i) == data[i + 1]

EmptyDict == [k \in {} |-> 0]
\* d[k] = v
Put(d, k, v) == [x \in (DOMAIN d) \cup {k} |-> IF x = k THEN v ELSE d[x]]
\* d.get(k)
Get(d, k) == IF k \in DOMAIN d THEN Some(d[k]) ELSE None

\* ------------------------------------------------------------------------
\* Wire codec
\* ------------------------------------------------------------------------

\* encode_proprietary_header: u16 little endian = manufacturer (11 bits) |
\* reserved 0b11 << 11 | industry << 13, then the PID byte.
encode_proprietary_header(manufacturer_code, industry_code, proprietary_id) ==
    LET proprietary_info == (manufacturer_code % 2048) + 3 * 2048
                            + (industry_code % 8) * 8192
    IN  << proprietary_info % 256, proprietary_info \div 256, proprietary_id >>

\* The 29-bit arbitration id of a frame as python-can presents it to a
\* listener: priority | DP | PF | PS | SA, PS being the destination for a
\* PDU1 PGN and the PGN's low byte for a PDU2 PGN.
ArbitrationId(pgn, priority, source_addr, destination_addr) ==
    LET pdu_format == (pgn \div 256) % 256
        pdu_specific == pgn % 256
        data_page == (pgn \div 65536) % 2
        ps == IF pdu_format < 240 THEN destination_addr ELSE pdu_specific
    IN  (priority % 8) * 67108864 + data_page * 16777216
        + pdu_format * 65536 + (ps % 256) * 256 + (source_addr % 256)

\* decode_vsw_state_response: None when short or when the header is not
\* Lumitec / Marine / VSW_STATE; otherwise a fresh SwitchState whose derived
\* fields keep the constructor's defaults unless the colour type sets them.
\* (last_updated, a wall-clock reading, is left out.)
decode_vsw_state_response(data) ==
    IF Len(data) < 8 THEN None
    ELSE
      LET proprietary_info == B(data, 0) + 256 * B(data, 1)
          manufacturer == proprietary_info % 2048
          industry == (proprietary_info \div 8192) % 8
          pid == B(data, 2)
      IN  IF manufacturer # NMEA2K_MANUFACTURER_LUMITEC
             \/ industry # NMEA2K_INDUSTRY_MARINE
             \/ pid # VSW_STATE
          THEN None
          ELSE
            LET status_and_type == B(data, 4)
                status_flags == status_and_type % 16
                color_type == (status_and_type \div 16) % 16
                cd0 == B(data, 5)
                cd1 == B(data, 6)
            IN  Some([ switch_id |-> B(data, 3),
                       is_on |-> (status_flags % 2 = 1),
                       color_type |-> color_type,
                       color_data_0 |-> cd0,
                       color_data_1 |-> cd1,
                       brightness |-> B(data, 7),
                       hue |-> IF color_type = HUE_SAT THEN cd0 ELSE 0,
                       saturation |-> IF color_type = HUE_SAT THEN cd1 ELSE 255,
                       pocofx_id |-> IF color_type = FX_ID THEN cd0 ELSE 0,
                       cct_kelvin |-> IF color_type = CCT THEN cd1 * 256 + cd0 ELSE 0,
                       mutex_index |-> IF color_type = MUTEX THEN cd0 ELSE 0 ])

\* decode_enumerate_response: None when short; the header bytes are skipped,
\* not verified.
decode_enumerate_response(data) ==
    IF Len(data) < 8 THEN None
    ELSE
      LET device_id == B(data, 3) + B(data, 4) * 256 + B(data, 5) * 65536
          byte6 == B(data, 6)
          capabilities == B(data, 7)
      IN  Some([ device_id |-> device_id,
                 num_channels |-> (byte6 \div 16) % 16,
                 protocol_version |-> byte6 % 16,
                 expander_role |-> (capabilities % 2 # 0) ])

\* Mutation: the mode is the whole of byte 4, fault flags included.
decode_outch_status_unmasked(data) ==
    IF Len(data) < 8 THEN None
    ELSE Some([ channel |-> B(data, 3),
                mode |-> B(data, 4),
                output_level |-> B(data, 5),
                input_voltage_mv |-> B(data, 6) * 200,
                current_ma |-> B(data, 7) * 100,
                fault_flags |-> (B(data, 4) \div 8) * 8 ])

\* decode_outch_status: raises ValueError when short (None here stands for
\* the raise); the header bytes are skipped, not verified.
decode_outch_status(data) ==
    IF Len(data) < 8 THEN None
    ELSE
      LET mode_and_status == B(data, 4)
      IN  Some([ channel |-> B(data, 3),
                 mode |-> mode_and_status % 8,
                 output_level |-> B(data, 5),
                 input_voltage_mv |-> B(data, 6) * 200,
                 current_ma |-> B(data, 7) * 100,
                 fault_flags |-> (mode_and_status \div 8) * 8 ])

\* The loop of _decode_binary_status: 28 two-bit fields, four per byte from
\* byte 1 on, 3 for a field whose byte lies beyond the payload.
BinaryStates(data) ==
    [ j \in 1..28 |->
        LET i == j - 1
            byte_idx == 1 + (i \div 4)
        IN  IF byte_idx >= Len(data) THEN 3
            ELSE LET bit_offset == (i % 4) * 2
                 IN  (B(data, byte_idx) \div (2 ^ bit_offset)) % 4 ]

\* ------------------------------------------------------------------------
\* Wire codec: encoders.  An encoder returns Some(bytes), or None where
\* struct.pack raises struct.error.
\* ------------------------------------------------------------------------

\* max(lo, min(hi, v))
Clamp(lo, hi, v) == IF v < lo THEN lo ELSE IF v > hi THEN hi ELSE v

\* v & 0xFD: the low byte of v with bit 1 cleared.
AndFD(v) == (v % 256) - 2 * (((v % 256) \div 2) % 2)

\* struct.pack('B' * n, *fields): each field has to be in 0..255.
pack_B(fields) ==
    IF \A i \in 1..Len(fields) : fields[i] \in 0..255 THEN Some(fields) ELSE None

\* header + struct.pack(...)
WithHeader(proprietary_id, packed) ==
    IF packed = None THEN None
    ELSE Some(encode_proprietary_header(NMEA2K_MANUFACTURER_LUMITEC,
                                        NMEA2K_INDUSTRY_MARINE, proprietary_id)
              \o packed[1])

\* _pack_vsw_common
pack_vsw_common(prop_id, act_id, sw_id, byte5, byte6, byte7) ==
    WithHeader(prop_id, pack_B(<< act_id, sw_id, byte5, byte6, byte7 >>))

encode_vsw_simple_action(switch_id, action_id) ==
    pack_vsw_common(VSW_SIMPLE_ACTIONS, action_id, switch_id, 255, 255, 255)

\* Mutation: the switch id is packed before the action.
encode_vsw_hsb_switch_first(switch_id, action, hue, saturation, brightness) ==
    pack_vsw_common(VSW_CUSTOM_HSB, switch_id % 256, action, hue % 256,
                    saturation % 256, brightness % 256)

encode_vsw_hsb(switch_id, action, hue, saturation, brightness) ==
    pack_vsw_common(VSW_CUSTOM_HSB, action, switch_id % 256, hue % 256,
                    saturation % 256, brightness % 256)

encode_vsw_custom_rgb(switch_id, red, green, blue) ==
    pack_vsw_common(VSW_CUSTOM_RGB, T2RGB, switch_id % 256, red % 256,
                    green % 256, blue % 256)

\* The delta is clamped to -128..127 and handed to struct.pack('B') as it
\* is, signed.
encode_vsw_delta_brightness(switch_id, delta) ==
    pack_vsw_common(VSW_DELTABRIGHT, T2BD, switch_id % 256,
                    Clamp(-128, 127, delta), 255, 255)

encode_vsw_pocofx_start(switch_id, pocofx_id) ==
    pack_vsw_common(VSW_POCOFX_ID, POCOFX_START, AndFD(switch_id),
                    pocofx_id % 256, 255, 255)

encode_outch_binary_channel(channel, state) ==
    LET packed == pack_B(<< channel, state >>)
    IN  WithHeader(OUTPUTCH_BIN_ONOFF,
                   IF packed = None THEN None ELSE Some(packed[1] \o << 255, 255, 255 >>))

encode_outch_pwm_channel(channel, duty_cycle) ==
    LET packed == pack_B(<< channel, duty_cycle >>)
    IN  WithHeader(OUTPUTCH_PWM_DUTY,
                   IF packed = None THEN None ELSE Some(packed[1] \o << 255, 255, 255 >>))

\* struct.pack('<BI', channel, pli_message): a byte and a little-endian
\* unsigned 32-bit word (messages from 2^31 up are not explored).
encode_outch_pli_raw(channel, pli_message) ==
    WithHeader(OUTPUTCH_PLI_RAW,
               IF channel \in 0..255 /\ pli_message >= 0
               THEN Some(<< channel, pli_message % 256, (pli_message \div 256) % 256,
                            (pli_message \div 65536) % 256,
                            (pli_message \div 16777216) % 256 >>)
               ELSE None)

\* _pack_pli_common
pack_pli_common(prop_id, chan, clan, trans, byte6, byte7) ==
    WithHeader(prop_id, pack_B(<< Clamp(0, 4, chan), Clamp(0, 63, clan) % 64,
                                  Clamp(0, 7, trans) % 8, byte6, byte7 >>))

encode_outch_pli_t2hsb(channel, hue, saturation, brightness, pli_clan, transition) ==
    pack_pli_common(OUTPUTCH_PLI_T2HSB, channel, pli_clan, transition,
                    Clamp(0, 255, hue),
                    (Clamp(0, 15, saturation) % 16) + (Clamp(0, 15, brightness) % 16) * 16)

encode_outch_pli_t2rgb(channel, red, green, blue, pli_clan, transition) ==
    LET rgb_packed == (Clamp(0, 31, red) % 32) + (Clamp(0, 31, green) % 32) * 32
                      + (Clamp(0, 31, blue) % 32) * 1024
    IN  pack_pli_common(OUTPUTCH_PLI_T2RGB, channel, pli_clan, transition,
                        rgb_packed % 256, (rgb_packed \div 256) % 256)

encode_outch_pli_t2hs(channel, hue, saturation, pli_clan, transition) ==
    pack_pli_common(OUTPUTCH_PLI_T2HS, channel, pli_clan, transition,
                    Clamp(0, 255, hue) % 256,
                    (Clamp(0, 15, saturation) % 16) + 15 * 16)

encode_outch_pli_t2b(channel, brightness, pli_clan, transition) ==
    pack_pli_common(OUTPUTCH_PLI_T2B, channel, pli_clan, transition,
                    Clamp(0, 255, brightness) % 256, 255)

\* delta & 0xFF if delta >= 0 else 256 + delta, after the clamp to -127..127
encode_outch_pli_t2bd(channel, delta, pli_clan, transition) ==
    LET d == Clamp(-127, 127, delta)
        delta_byte == IF d >= 0 THEN d % 256 ELSE 256 + d
    IN  pack_pli_common(OUTPUTCH_PLI_T2BD, channel, pli_clan, transition,
                        delta_byte % 256, 255)

encode_outch_pli_t2p(channel, pattern, pli_clan, transition) ==
    pack_pli_common(OUTPUTCH_PLI_T2P, channel, pli_clan, transition,
                    AndFD(Clamp(0, 253, pattern)), 255)

encode_outch_status_request(channel) ==
    WithHeader(OUTPUTCH_STATUS_REQUEST, pack_B(<< Clamp(0, 4, channel), 0, 0, 0, 0 >>))

\* Mutation: the four switches of a byte are packed from the high bits down.
encode_binary_switch_control_high_first(bank, states) ==
    LET n == IF Len(states) < 28 THEN Len(states) ELSE 28
        field(i) == IF i < n THEN (states[i + 1] % 4) * (2 ^ (6 - (i % 4) * 2)) ELSE 0
    IN  Some(<< bank % 256 >>
             \o [ k \in 1..7 |-> field(4 * (k - 1)) + field(4 * (k - 1) + 1)
                                 + field(4 * (k - 1) + 2) + field(4 * (k - 1) + 3) ])

\* encode_binary_switch_control: a bytearray of 8 zero bytes, the bank in
\* byte 0, switch i of the first 28 in the two bits (i % 4) * 2 of byte
\* 1 + i // 4.  It has nothing to raise.
encode_binary_switch_control(bank, states) ==
    LET n == IF Len(states) < 28 THEN Len(states) ELSE 28
        field(i) == IF i < n THEN (states[i + 1] % 4) * (2 ^ ((i % 4) * 2)) ELSE 0
    IN  Some(<< bank % 256 >>
             \o [ k \in 1..7 |-> field(4 * (k - 1)) + field(4 * (k - 1) + 1)
                                 + field(4 * (k - 1) + 2) + field(4 * (k - 1) + 3) ])

encode_vsw_state_query(switch_id) == encode_vsw_simple_action(switch_id, NO_ACTION)

encode_enumerate_request ==
    Some(encode_proprietary_header(NMEA2K_MANUFACTURER_LUMITEC, NMEA2K_INDUSTRY_MARINE,
                                   ENUMERATE_REQUEST)
         \o << 0 >> \o << 255, 255, 255, 255 >>)

\* calculate_pgn_can_id: bit 31, set "for python-can", and the 29-bit
\* identifier below it, kept apart (the sum does not fit the checker's
\* integers).
calculate_pgn_can_id(pgn, priority, source_addr, destination_addr) ==
    [ bit31 |-> 1, id |-> ArbitrationId(pgn, priority, source_addr, destination_addr) ]

\* create_enumerate_request_message: the priority is the literal 6.
create_enumerate_request_message(src_addr_arg, dest_addr) ==
    << calculate_pgn_can_id(PGN_PROPRIETARY_SINGLE_FRAME, 6, src_addr_arg, dest_addr),
       encode_enumerate_request >>

\* create_vsw_turn_on_message / create_vsw_turn_off_message
create_vsw_turn_on_message(switch_id, source_addr, destination_addr) ==
    << calculate_pgn_can_id(PGN_PROPRIETARY_SINGLE_FRAME, 3, source_addr, destination_addr),
       encode_vsw_simple_action(switch_id, ON) >>

create_vsw_turn_off_message(switch_id, source_addr, destination_addr) ==
    << calculate_pgn_can_id(PGN_PROPRIETARY_SINGLE_FRAME, 3, source_addr, destination_addr),
       encode_vsw_simple_action(switch_id, OFF) >>

\* create_vsw_set_color_message
create_vsw_set_color_message(switch_id, hue, saturation, brightness, source_addr, destination_addr, priority) ==
    << calculate_pgn_can_id(PGN_PROPRIETARY_SINGLE_FRAME, priority, source_addr,
                            destination_addr),
       encode_vsw_hsb(switch_id, T2HSB, hue, saturation, brightness) >>

\* ------------------------------------------------------------------------
\* Inbound traffic explored
\* ------------------------------------------------------------------------

\* Two devices on the bus, as <<source address, destination address>> of
\* the frames they send: 33 broadcasts, 34 addresses this session.
RxRoutes == { <<33, BROADCAST>>, <<34, DEFAULT_SOURCE>> }

\* Target addresses a session is constructed with.
TargetAddresses == { BROADCAST, 33 }

\* <<manufacturer, industry>> of the headers on the proprietary PGN: Lumitec
\* Marine, another vendor, and Lumitec's code under another industry.
RxHeaders == { <<NMEA2K_MANUFACTURER_LUMITEC, NMEA2K_INDUSTRY_MARINE>>,
               <<1851, NMEA2K_INDUSTRY_MARINE>>,
               <<NMEA2K_MANUFACTURER_LUMITEC, 2>> }

RxPids == { ENUMERATE_RESPONSE, VSW_STATE, OUTPUTCH_STATUS, VSW_SIMPLE_ACTIONS }

\* Bytes 3..7 per PID.
RxPayloads(pid) ==
    CASE pid = ENUMERATE_RESPONSE -> { <<1, 0, 0, 66, 1>>, <<86, 52, 18, 36, 0>> }
      [] pid = VSW_STATE -> { <<0, 17, 10, 20, 200>>, <<0, 48, 7, 9, 255>>,
                              <<1, 33, 52, 18, 5>>, <<1, 80, 3, 9, 0>> }
      [] pid = OUTPUTCH_STATUS -> { <<1, 11, 128, 60, 15>> }
      [] OTHER -> { <<2, 0, 255, 255, 255>> }

RxLongData ==
    UNION { { encode_proprietary_header(h[1], h[2], pid) \o p : p \in RxPayloads(pid) }
            : <<h, pid>> \in RxHeaders \X RxPids }

\* Truncated frames: the header alone.
RxShortData ==
    { encode_proprietary_header(NMEA2K_MANUFACTURER_LUMITEC, NMEA2K_INDUSTRY_MARINE, pid)
        : pid \in { ENUMERATE_RESPONSE, VSW_STATE, OUTPUTCH_STATUS } }
    \cup { encode_proprietary_header(1851, NMEA2K_INDUSTRY_MARINE, ENUMERATE_RESPONSE) }

RxBinaryData == { << >>, <<0, 5, 255, 255, 255, 255, 255, 255>>, <<1, 212, 0>> }

Message(arbitration_id, data) == [ arbitration_id |-> arbitration_id, data |-> data ]

ProprietaryFrames ==
    { Message(ArbitrationId(PGN_PROPRIETARY_SINGLE_FRAME, 3, r[1], r[2]), d)
        : <<r, d>> \in RxRoutes \X ({ << >> } \cup RxShortData \cup RxLongData) }

BinaryFrames ==
    { Message(ArbitrationId(PGN_BINARY_SWITCH_STATUS, 3, r[1], r[2]), d)
        : <<r, d>> \in RxRoutes \X RxBinaryData }

OtherFrames ==
    { Message(ArbitrationId(PGN_BINARY_SWITCH_CONTROL, 3, r[1], r[2]),
              <<0, 5, 255, 255, 255, 255, 255, 255>>) : r \in RxRoutes }

Frames == ProprietaryFrames \cup BinaryFrames \cup OtherFrames

\* ------------------------------------------------------------------------
\* State
\* ------------------------------------------------------------------------
Levels == { "Base", "Level0", "Level1", "Level2" }
Callbacks == 1..NumCallbacks

VARIABLES
    level,                     \* the class of the session object
    poco_address,              \* self.poco_address
    source_address,            \* self.source_address
    bus,                       \* self.bus: 0 is None, else a bus id
    notifier,                  \* self.notifier: 0 is None, else a notifier id
    switch_states,             \* self.switch_states: switch_id -> SwitchState
    discovered_devices,        \* self.discovered_devices: address -> info
    binary_switch_states,      \* Level 1: bank -> 28 states
    state_callbacks,           \* observer lists
    enumeration_callbacks,
    channel_status_callbacks,  \* Level 0
    binary_callbacks,          \* Level 1
    buses,                     \* transport: the open bus ids
    opened,                    \* transport: buses opened so far
    notifiers,                 \* transport: id -> [bus, running, callback]
    inbox,                     \* transport: id -> the frame recv() returned
    thread,                    \* per notifier: where its reader thread is
    mainpc,                    \* the application thread: "ready", or inside a call
    pending,                   \* the callback argument of a start_listener in progress
    result,                    \* outcome of the application's last call
    rx,                        \* last delivery: the notifiers it reached
    disc,                      \* disconnect() since the last connect(): "no",
                               \* "stopping" (called while observers were still
                               \* to be notified of a frame, not yet returned),
                               \* "midDispatch" (that call has returned),
                               \* "idle" (returned, no such frame at the call)
    lateCallback,              \* an observer ran after disconnect() returned
    escaped,                   \* an exception left handle_message
    call                       \* the application's last outbound call: its name,
                               \* its arguments, the frames it gave bus.send()

config == << level, poco_address, source_address >>
caches == << switch_states, discovered_devices, binary_switch_states >>
observers == << state_callbacks, enumeration_callbacks,
                channel_status_callbacks, binary_callbacks >>
transport == << buses, opened, notifiers, inbox >>
session == << bus, notifier, mainpc, pending, result >>
history == << rx, disc, lateCallback, escaped >>
vars == << config, caches, observers, transport, session, thread, history, call >>

\* ------------------------------------------------------------------------
\* Observer registration
\* ------------------------------------------------------------------------
Contains(list, c) == \E i \in 1..Len(list) : list[i] = c

\* list.remove(c): drops the first occurrence.
RemoveFirst(list, c) ==
    LET i == CHOOSE k \in 1..Len(list) :
                 list[k] = c /\ \A j \in 1..(k - 1) : list[j] # c
    IN  SubSeq(list, 1, i - 1) \o SubSeq(list, i + 1, Len(list))

\* Mutation: append without the membership test.
add_callback_always(list, c) == Append(list, c)

\* add_*_callback: "if callback not in list: list.append(callback)"
add_callback(list, c) == IF ~Contains(list, c) THEN Append(list, c) ELSE list

\* remove_*_callback: "if callback in list: list.remove(callback)"
remove_callback(list, c) == IF Contains(list, c) THEN RemoveFirst(list, c) ELSE list

\* History: a reader thread that is inside a frame notes the callbacks
\* taken off a list while it is there.
NoteRemoved(loop, list, c) ==
    IF thread = << >> \/ ~Contains(list, c) THEN thread
    ELSE [ n \in DOMAIN thread |->
             IF thread[n].pc \in { "base", "hook", "bin" }
             THEN [ thread[n] EXCEPT !.removed = @ \cup { << loop, c >> } ]
             ELSE thread[n] ]

add_state_callback(c) ==
    /\ mainpc = "ready"
    /\ state_callbacks' = add_callback(state_callbacks, c)
    /\ result' = "ok"
    /\ UNCHANGED << config, call, caches, enumeration_callbacks, channel_status_callbacks,
                    binary_callbacks, transport, bus, notifier, mainpc, pending,
                    thread, history >>

remove_state_callback(c) ==
    /\ mainpc = "ready"
    /\ state_callbacks' = remove_callback(state_callbacks, c)
    /\ result' = "ok"
    /\ thread' = NoteRemoved("state", state_callbacks, c)
    /\ UNCHANGED << config, call, caches, enumeration_callbacks, channel_status_callbacks,
                    binary_callbacks, transport, bus, notifier, mainpc, pending,
                    history >>

add_enumeration_callback(c) ==
    /\ mainpc = "ready"
    /\ enumeration_callbacks' = add_callback(enumeration_callbacks, c)
    /\ result' = "ok"
    /\ UNCHANGED << config, call, caches, state_callbacks, channel_status_callbacks,
                    binary_callbacks, transport, bus, notifier, mainpc, pending,
                    thread, history >>

remove_enumeration_callback(c) ==
    /\ mainpc = "ready"
    /\ enumeration_callbacks' = remove_callback(enumeration_callbacks, c)
    /\ result' = "ok"
    /\ thread' = NoteRemoved("enum", enumeration_callbacks, c)
    /\ UNCHANGED << config, call, caches, state_callbacks, channel_status_callbacks,
                    binary_callbacks, transport, bus, notifier, mainpc, pending,
                    history >>

\* Level 0 only
add_channel_status_callback(c) ==
    /\ mainpc = "ready"
    /\ level = "Level0"
    /\ channel_status_callbacks' = add_callback(channel_status_callbacks, c)
    /\ result' = "ok"
    /\ UNCHANGED << config, call, caches, state_callbacks, enumeration_callbacks,
                    binary_callbacks, transport, bus, notifier, mainpc, pending,
                    thread, history >>

remove_channel_status_callback(c) ==
    /\ mainpc = "ready"
    /\ level = "Level0"
    /\ channel_status_callbacks' = remove_callback(channel_status_callbacks, c)
    /\ result' = "ok"
    /\ thread' = NoteRemoved("chan", channel_status_callbacks, c)
    /\ UNCHANGED << config, call, caches, state_callbacks, enumeration_callbacks,
                    binary_callbacks, transport, bus, notifier, mainpc, pending,
                    history >>

\* Level 1 only
add_binary_callback(c) ==
    /\ mainpc = "ready"
    /\ level = "Level1"
    /\ binary_callbacks' = add_callback(binary_callbacks, c)
    /\ result' = "ok"
    /\ UNCHANGED << config, call, caches, state_callbacks, enumeration_callbacks,
                    channel_status_callbacks, transport, bus, notifier, mainpc,
                    pending, thread, history >>

remove_binary_callback(c) ==
    /\ mainpc = "ready"
    /\ level = "Level1"
    /\ binary_callbacks' = remove_callback(binary_callbacks, c)
    /\ result' = "ok"
    /\ thread' = NoteRemoved("bin", binary_callbacks, c)
    /\ UNCHANGED << config, call, caches, state_callbacks, enumeration_callbacks,
                    channel_status_callbacks, transport, bus, notifier, mainpc,
                    pending, history >>

\* clear_discovered_devices
clear_discovered_devices ==
    /\ mainpc = "ready"
    /\ discovered_devices' = EmptyDict
    /\ result' = "ok"
    /\ UNCHANGED << config, call, switch_states, binary_switch_states, observers,
                    transport, bus, notifier, mainpc, pending, thread, history >>

\* ------------------------------------------------------------------------
\* Connection and listener lifecycle
\* ------------------------------------------------------------------------
\* A reader thread in recv().  prev remembers the frame before: "short"
\* (under 8 bytes), "raised" (a callback raised), or "none".  reg and removed
\* are history: the observer lists as they were when the dispatch of the
\* frame began, and the callbacks removed since.
IdleThread(prev) ==
    [ pc |-> "idle", msg |-> None, loop |-> "none", idx |-> 0, log |-> << >>,
      exc |-> FALSE, pre |-> None, prev |-> prev, reg |-> None, removed |-> {} ]

\* The reader thread of n is inside a frame with observers yet to call.
Dispatching(n) ==
    /\ n \in DOMAIN thread
    /\ thread[n].pc \in { "base", "hook", "bin" }
    /\ thread[n].loop # "none"

\* Notifier.stop(): the reader thread is told to end ...
StopRequested(ns, n) == [ ns EXCEPT ![n].running = FALSE ]
\* Mutation: stop() returns without waiting for the reader thread.
Joined_at_once(n) == TRUE

\* ... and joined: it has left the dispatch it was in, or has died.
Joined(n) == thread[n].pc \in { "idle", "dead" }

\* connect: a fresh bus replaces self.bus, whatever self.bus was; when
\* can.Bus() raises, the exception is logged and raised again, self.bus
\* left as it was.  (outcomes: whether the transport is explored failing.)
connect(outcomes) ==
    /\ mainpc = "ready"
    /\ opened < MaxBuses
    /\ \E opens \in outcomes :
         IF opens
         THEN /\ opened' = opened + 1
              /\ buses' = buses \cup { opened + 1 }
              /\ bus' = opened + 1
              /\ result' = "ok"
              /\ disc' = "no"
         ELSE /\ result' = "TransportError"
              /\ UNCHANGED << opened, buses, bus, disc >>
    /\ UNCHANGED << config, call, caches, observers, notifiers, inbox, notifier, mainpc,
                    pending, thread, rx, lateCallback, escaped >>

\* disconnect() has returned and connect() has not been called since.
Returned == disc \in { "idle", "midDispatch" }

\* Mutation: disconnect goes straight to the bus.
disconnect_stops_never(n) == FALSE

\* disconnect, "if self.notifier:"
disconnect_stops(n) == n # 0

\* disconnect, "if self.bus: self.bus.shutdown(); self.bus = None"
disconnect_bus ==
    /\ buses' = buses \ { bus }
    /\ bus' = 0

\* disconnect up to the notifier's stop(); with no notifier, all of it.
disconnect_call ==
    /\ mainpc = "ready"
    /\ IF disconnect_stops(notifier)
       THEN /\ notifiers' = StopRequested(notifiers, notifier)
            /\ mainpc' = "disconnect"
            /\ disc' = IF Dispatching(notifier) THEN "stopping" ELSE "no"
            /\ UNCHANGED << buses, bus, result >>
       ELSE /\ disconnect_bus
            /\ result' = "ok"
            /\ disc' = "idle"
            /\ UNCHANGED << notifiers, mainpc >>
    /\ UNCHANGED << config, call, caches, observers, opened, inbox, notifier, pending,
                    thread, rx, lateCallback, escaped >>

\* disconnect from the return of stop(): self.notifier = None, then the bus.
disconnect_return ==
    /\ mainpc = "disconnect"
    /\ Joined(notifier)
    /\ inbox' = [ inbox EXCEPT ![notifier] = None ]
    /\ notifier' = 0
    /\ disconnect_bus
    /\ mainpc' = "ready"
    /\ result' = "ok"
    /\ disc' = IF disc = "stopping" THEN "midDispatch" ELSE "idle"
    /\ UNCHANGED << config, call, caches, observers, opened, notifiers, pending, thread,
                    rx, lateCallback, escaped >>

\* Mutation: start_listener attaches a notifier without stopping the one
\* it has.
start_listener_stops_never(n) == FALSE

\* start_listener, "if self.notifier:"
start_listener_stops(n) == n # 0

\* start_listener up to the existing notifier's stop(); RuntimeError and
\* nothing else when not connected.
start_listener_call(callback) ==
    /\ mainpc = "ready"
    /\ IF bus = 0
       THEN /\ result' = "RuntimeError"
            /\ UNCHANGED << notifiers, mainpc, pending >>
       ELSE /\ Cardinality(DOMAIN notifiers) < MaxNotifiers
            /\ notifiers' = IF start_listener_stops(notifier)
                            THEN StopRequested(notifiers, notifier)
                            ELSE notifiers
            /\ mainpc' = "start_listener"
            /\ pending' = callback
            /\ UNCHANGED result
    /\ UNCHANGED << config, call, caches, observers, buses, opened, inbox, bus, notifier,
                    thread, history >>

\* start_listener from there: listeners = [self._handle_message] plus the
\* callback if given, self.notifier = can.Notifier(self.bus, listeners).
start_listener_return ==
    /\ mainpc = "start_listener"
    /\ start_listener_stops(notifier) => Joined(notifier)
    /\ LET id == Cardinality(DOMAIN notifiers) + 1
       IN  /\ notifiers' = Put(notifiers, id,
                               [ bus |-> bus, running |-> TRUE, callback |-> pending ])
           /\ inbox' = Put(IF start_listener_stops(notifier)
                           THEN [ inbox EXCEPT ![notifier] = None ] ELSE inbox,
                           id, None)
           /\ thread' = Put(thread, id, IdleThread("none"))
           /\ notifier' = id
    /\ mainpc' = "ready"
    /\ pending' = 0
    /\ result' = "ok"
    /\ UNCHANGED << config, call, caches, observers, buses, opened, bus, history >>

\* ------------------------------------------------------------------------
\* Transport: a frame on the wire reaches every running notifier of an open bus
\* ------------------------------------------------------------------------
Recipients ==
    { n \in DOMAIN notifiers : /\ notifiers[n].running
                               /\ notifiers[n].bus \in buses
                               /\ thread[n].pc # "dead" }

Deliver(msg) ==
    /\ Recipients # {}
    /\ \A n \in Recipients : thread[n].pc = "idle" /\ inbox[n] = None
    /\ inbox' = [ n \in DOMAIN inbox |-> IF n \in Recipients THEN Some(msg) ELSE inbox[n] ]
    /\ rx' = [ to |-> Recipients, current |-> notifier ]
    /\ UNCHANGED << config, call, caches, observers, buses, opened, notifiers, session,
                    thread, disc, lateCallback, escaped >>

\* ------------------------------------------------------------------------
\* Inbound dispatch
\* ------------------------------------------------------------------------

\* _handle_message_impl: raw_pgn = (arbitration_id >> 8) & 0x3FFFF
raw_pgn(msg) == (msg.arbitration_id \div 256) % 262144

\* _handle_message_impl: src_addr = arbitration_id & 0xFF
src_addr(msg) == msg.arbitration_id % 256

\* _handle_message_impl: raw_pgn & 0xFF00 when the PDU format byte is below
\* 240, raw_pgn otherwise.
normalized_pgn(msg) ==
    LET pdu_format == (raw_pgn(msg) \div 256) % 256
    IN  IF pdu_format < 240 THEN pdu_format * 256 ELSE raw_pgn(msg)

\* _handle_message_impl, the source-address filter: TRUE when the frame is
\* ignored ("return").
filtered(msg, target) ==
    /\ target # BROADCAST
    /\ src_addr(msg) # target
    /\ IF normalized_pgn(msg) = PGN_PROPRIETARY_SINGLE_FRAME /\ Len(msg.data) >= 3
       THEN B(msg.data, 2) # ENUMERATE_RESPONSE
       ELSE TRUE

\* Mutation: the new response is merged into the entry already there, the
\* fields the entry holds winning (dict.setdefault in place of assignment).
store_device_merge(devices, src, info) ==
    IF src \in DOMAIN devices THEN devices
    ELSE Put(devices, src, [ can_address |-> src,
                             device_id |-> info.device_id,
                             num_channels |-> info.num_channels,
                             protocol_version |-> info.protocol_version,
                             expander_role |-> info.expander_role ])

\* self.discovered_devices[src_addr] = {'can_address': src_addr, **device_info}
store_device(devices, src, info) ==
    Put(devices, src, [ can_address |-> src,
                        device_id |-> info.device_id,
                        num_channels |-> info.num_channels,
                        protocol_version |-> info.protocol_version,
                        expander_role |-> info.expander_role ])

\* Mutation: the cached SwitchState object is updated in place, so a derived
\* field the new colour type does not set keeps its old value.
store_switch_state_merge(states, state) ==
    IF state.switch_id \in DOMAIN states
    THEN LET old == states[state.switch_id]
         IN  Put(states, state.switch_id,
                 [ state EXCEPT
                     !.hue = IF state.color_type = HUE_SAT THEN @ ELSE old.hue,
                     !.saturation = IF state.color_type = HUE_SAT THEN @ ELSE old.saturation,
                     !.pocofx_id = IF state.color_type = FX_ID THEN @ ELSE old.pocofx_id,
                     !.cct_kelvin = IF state.color_type = CCT THEN @ ELSE old.cct_kelvin,
                     !.mutex_index = IF state.color_type = MUTEX THEN @ ELSE old.mutex_index ])
    ELSE Put(states, state.switch_id, state)

\* Mutation: the state observers are told of a state the cache was not
\* given.
store_switch_state_skipped(states, state) == states

\* self.switch_states[state.switch_id] = state
store_switch_state(states, state) == Put(states, state.switch_id, state)

\* Mutation: a field the frame reports as 3 keeps the value cached before.
store_bank_merge(banks, bank, states) ==
    IF bank \in DOMAIN banks
    THEN Put(banks, bank,
             [ k \in 1..Len(states) |-> IF states[k] = 3 THEN banks[bank][k] ELSE states[k] ])
    ELSE Put(banks, bank, states)

\* self.binary_switch_states[bank] = switch_states
store_bank(banks, bank, states) == Put(banks, bank, states)

\* _handle_message_impl up to its callback loop: the caches after it and the
\* observer list it goes on to notify.
handle_message_impl(msg, target, states, devices) ==
    LET unchanged == [ sw |-> states, dev |-> devices, loop |-> "none" ]
    IN  IF filtered(msg, target) THEN unchanged
        ELSE IF normalized_pgn(msg) = PGN_PROPRIETARY_SINGLE_FRAME /\ Len(msg.data) >= 8
        THEN LET pid == B(msg.data, 2)
             IN  IF pid = ENUMERATE_RESPONSE
                 THEN LET device_info == decode_enumerate_response(msg.data)
                      IN  IF device_info # None
                          THEN [ sw |-> states,
                                 dev |-> store_device(devices, src_addr(msg), device_info[1]),
                                 loop |-> "enum" ]
                          ELSE unchanged
                 ELSE IF pid = VSW_STATE
                 THEN LET state == decode_vsw_state_response(msg.data)
                      IN  IF state # None
                          THEN [ sw |-> store_switch_state(states, state[1]),
                                 dev |-> devices,
                                 loop |-> "state" ]
                          ELSE unchanged
                 ELSE unchanged
        ELSE unchanged

\* "if pgn == PGN_PROPRIETARY_SINGLE_FRAME: self._handle_proprietary_message"
\* and Level 0's override of it: the observer list it notifies.  A short
\* status frame makes decode_outch_status raise, which the override catches.
handle_proprietary_message(msg, target, lvl) ==
    IF /\ ~filtered(msg, target)
       /\ normalized_pgn(msg) = PGN_PROPRIETARY_SINGLE_FRAME
       /\ lvl = "Level0"
       /\ Len(msg.data) >= 3
       /\ B(msg.data, 2) = OUTPUTCH_STATUS
       /\ decode_outch_status(msg.data) # None
    THEN "chan" ELSE "none"

\* Level 1 _handle_message after the base handler returned:
\* "if pgn == PGN_BINARY_SWITCH_STATUS: self._decode_binary_status(msg.data)",
\* which returns at once on an empty payload.
decodes_binary_status(msg, lvl) ==
    /\ lvl = "Level1"
    /\ raw_pgn(msg) = PGN_BINARY_SWITCH_STATUS
    /\ Len(msg.data) >= 1

\* Mutation: the binary callbacks are called without try/except.
callback_try_not_binary(loop) == loop # "bin"

\* Mutation: the state callbacks are called without try/except.
callback_try_not_state(loop) == loop # "state"

\* The try/except around each observer call: TRUE when an exception raised
\* by a callback of that list is caught there.
callback_try(loop) == TRUE

\* The try/except of PocoCANInterfaceBase._handle_message.
handle_message_try == TRUE

CallbackList(loop) ==
    CASE loop = "enum" -> enumeration_callbacks
      [] loop = "state" -> state_callbacks
      [] loop = "chan" -> channel_status_callbacks
      [] loop = "bin" -> binary_callbacks
      [] OTHER -> << >>

\* "for callback in list" has run out (the list is read again at each step).
LoopDone(t) == t.loop = "none" \/ t.idx > Len(CallbackList(t.loop))

\* The observer lists, by the loop that goes through them.
Registry ==
    [ enum |-> enumeration_callbacks, state |-> state_callbacks,
      chan |-> channel_status_callbacks, bin |-> binary_callbacks ]

Caches == [ sw |-> switch_states, dev |-> discovered_devices, bin |-> binary_switch_states ]

\* The reader thread hands the frame recv() returned to
\* self._handle_message, which runs _handle_message_impl to its first loop.
Receive(n) ==
    /\ n \in DOMAIN notifiers
    /\ notifiers[n].running
    /\ thread[n].pc = "idle"
    /\ inbox[n] # None
    /\ LET msg == inbox[n][1]
           r == handle_message_impl(msg, poco_address, switch_states, discovered_devices)
       IN  /\ switch_states' = r.sw
           /\ discovered_devices' = r.dev
           /\ thread' = [ thread EXCEPT ![n] =
                            [ pc |-> "base", msg |-> Some(msg), loop |-> r.loop, idx |-> 1,
                              log |-> << >>, exc |-> FALSE,
                              pre |-> Some(Caches), prev |-> @.prev,
                              reg |-> Some(Registry), removed |-> {} ] ]
    /\ inbox' = [ inbox EXCEPT ![n] = None ]
    /\ UNCHANGED << config, call, binary_switch_states, observers, buses, opened, notifiers,
                    session, history >>

\* The arguments each loop calls its callbacks with.
callback_args(loop, msg) ==
    CASE loop = "enum" ->
           << src_addr(msg), decode_enumerate_response(msg.data)[1] >>
      [] loop = "state" ->
           LET state == decode_vsw_state_response(msg.data)[1]
           IN  << state.switch_id, state >>
      [] loop = "chan" ->
           LET status == decode_outch_status(msg.data)[1]
           IN  << status.channel, status.mode, status.output_level,
                  status.input_voltage_mv, status.current_ma >>
      [] loop = "bin" ->
           << B(msg.data, 0), BinaryStates(msg.data) >>

\* One turn of a callback loop: the callback is called and returns or
\* raises (outcomes: whether the callbacks explored may raise); an exception
\* the loop does not catch ends the loop.  The log keeps the loop, the
\* callback, whether it raised and the arguments it was called with.
Invoke(n, outcomes) ==
    /\ n \in DOMAIN thread
    /\ thread[n].pc \in { "base", "hook", "bin" }
    /\ ~LoopDone(thread[n])
    /\ \E raises \in outcomes :
         LET t == thread[n]
             callback == CallbackList(t.loop)[t.idx]
             caught == callback_try(t.loop)
         IN  thread' = [ thread EXCEPT ![n] =
                 [ t EXCEPT !.log = Append(@, << t.loop, callback, raises,
                                                 callback_args(t.loop, t.msg[1]) >>),
                            !.exc = raises /\ ~caught,
                            !.loop = IF raises /\ ~caught THEN "none" ELSE @,
                            !.idx = @ + 1 ] ]
    /\ lateCallback' = (lateCallback \/ Returned)
    /\ UNCHANGED << config, call, caches, observers, transport, session, rx, disc,
                    escaped >>

\* One turn of the state or enumeration loop with a callback that, inside
\* its invocation, takes itself off the list it is called from
\* (remove_state_callback(callback), remove_enumeration_callback(callback))
\* and returns: no lock is held by the loop or taken by remove_*_callback,
\* so the call returns at once, and the loop goes on over the list as it
\* now is.
InvokeUnregistering(n) ==
    /\ n \in DOMAIN thread
    /\ thread[n].pc = "base"
    /\ thread[n].loop \in { "enum", "state" }
    /\ ~LoopDone(thread[n])
    /\ LET t == thread[n]
           callback == CallbackList(t.loop)[t.idx]
       IN  /\ thread' = [ thread EXCEPT ![n] =
                 [ t EXCEPT !.log = Append(@, << t.loop, callback, FALSE,
                                                 callback_args(t.loop, t.msg[1]) >>),
                            !.idx = @ + 1,
                            !.removed = @ \cup { << t.loop, callback >> } ] ]
           /\ state_callbacks' = IF t.loop = "state"
                                 THEN remove_callback(state_callbacks, callback)
                                 ELSE state_callbacks
           /\ enumeration_callbacks' = IF t.loop = "enum"
                                       THEN remove_callback(enumeration_callbacks, callback)
                                       ELSE enumeration_callbacks
    /\ lateCallback' = (lateCallback \/ Returned)
    /\ UNCHANGED << config, call, caches, channel_status_callbacks, binary_callbacks,
                    transport, session, rx, disc, escaped >>

\* The base loop is over: _handle_message_impl calls the hook, unless an
\* exception is on its way to _handle_message's try/except.
Hook(n) ==
    /\ n \in DOMAIN thread
    /\ thread[n].pc = "base"
    /\ LoopDone(thread[n])
    /\ LET t == thread[n]
       IN  IF t.exc /\ ~handle_message_try
           THEN /\ thread' = [ thread EXCEPT ![n] = [ t EXCEPT !.pc = "dead" ] ]
                /\ escaped' = TRUE
           ELSE /\ thread' = [ thread EXCEPT ![n] =
                      [ t EXCEPT !.pc = "hook",
                                 !.exc = FALSE,
                                 !.idx = 1,
                                 !.loop = IF t.exc THEN "none"
                                          ELSE handle_proprietary_message(
                                                   t.msg[1], poco_address, level) ] ]
                /\ UNCHANGED escaped
    /\ UNCHANGED << config, call, caches, observers, transport, session, rx, disc,
                    lateCallback >>

\* The base handler has returned (an exception out of the status loop is
\* caught by the hook's outer try): Level 1 decodes a bank status.
Binary(n) ==
    /\ n \in DOMAIN thread
    /\ thread[n].pc = "hook"
    /\ LoopDone(thread[n])
    /\ LET t == thread[n]
           msg == t.msg[1]
           decodes == decodes_binary_status(msg, level)
       IN  /\ binary_switch_states' =
                 IF decodes
                 THEN store_bank(binary_switch_states, B(msg.data, 0), BinaryStates(msg.data))
                 ELSE binary_switch_states
           /\ thread' = [ thread EXCEPT ![n] =
                 [ t EXCEPT !.pc = "bin", !.exc = FALSE, !.idx = 1,
                            !.loop = IF decodes THEN "bin" ELSE "none" ] ]
    /\ UNCHANGED << config, call, switch_states, discovered_devices, observers, transport,
                    session, history >>

\* self._handle_message has returned, or an exception has left it and ends
\* the reader thread; the notifier then calls the application's listener.
Listener(n) ==
    /\ n \in DOMAIN thread
    /\ thread[n].pc = "bin"
    /\ LoopDone(thread[n])
    /\ LET t == thread[n]
           callback == notifiers[n].callback
       IN  IF t.exc
           THEN /\ thread' = [ thread EXCEPT ![n] = [ t EXCEPT !.pc = "dead" ] ]
                /\ escaped' = TRUE
           ELSE /\ thread' = [ thread EXCEPT ![n] =
                      [ t EXCEPT !.pc = "fin", !.loop = "none",
                                 !.log = IF callback # 0
                                         THEN Append(@, << "user", callback, FALSE,
                                                         << t.msg[1] >> >>)
                                         ELSE @ ] ]
                /\ UNCHANGED escaped
    /\ UNCHANGED << config, call, caches, observers, transport, session, rx, disc,
                    lateCallback >>

\* A callback raised while the frame was dispatched.
Raised(t) == \E i \in 1..Len(t.log) : t.log[i][3]

\* The frame is done; the thread goes back to recv().  With `track` the
\* thread remembers whether the frame was short or made a callback raise.
Done(n, track) ==
    /\ n \in DOMAIN thread
    /\ thread[n].pc = "fin"
    /\ thread' = [ thread EXCEPT ![n] =
                     IdleThread(IF ~track THEN "none"
                                ELSE IF Len(thread[n].msg[1].data) < 8 THEN "short"
                                ELSE IF Raised(thread[n]) THEN "raised"
                                ELSE "none") ]
    /\ UNCHANGED << config, call, caches, observers, transport, session, history >>

ThreadStep ==
    \E n \in 1..MaxNotifiers :
        Receive(n) \/ Invoke(n, BOOLEAN) \/ Hook(n) \/ Binary(n) \/ Listener(n) \/ Done(n, TRUE)

\* ------------------------------------------------------------------------
\* Outbound: the send primitives and the facade methods.  A call is one
\* step of the application thread; call records the method, its arguments
\* and the frames it handed to bus.send, result how it ended.
\* ------------------------------------------------------------------------
Raise(error) == [ result |-> error, sent |-> << >> ]

\* Mutation: send_raw tries a second time when bus.send raises.
send_raw_retrying(can_id, data, fails) ==
    IF bus = 0 THEN Raise("RuntimeError")
    ELSE [ result |-> IF fails THEN "CanError" ELSE "ok",
           sent |-> IF fails
                    THEN << [ can_id |-> can_id, data |-> data ],
                            [ can_id |-> can_id, data |-> data ] >>
                    ELSE << [ can_id |-> can_id, data |-> data ] >> ]

\* Mutation: send_raw goes to the bus without looking at self.bus.
send_raw_unguarded(can_id, data, fails) ==
    [ result |-> IF fails THEN "CanError" ELSE "ok",
      sent |-> << [ can_id |-> can_id, data |-> data ] >> ]

\* send_raw: RuntimeError before anything else when self.bus is None; one
\* bus.send(msg), its can.CanError logged and raised again.  The priority
\* argument is not used.
send_raw(can_id, data, fails) ==
    IF bus = 0 THEN Raise("RuntimeError")
    ELSE [ result |-> IF fails THEN "CanError" ELSE "ok",
           sent |-> << [ can_id |-> can_id, data |-> data ] >> ]

\* Mutation: send_proprietary addresses every frame to all devices.
send_proprietary_broadcast(data, priority, fails) ==
    send_raw(calculate_pgn_can_id(PGN_PROPRIETARY_SINGLE_FRAME, priority,
                                  source_address, BROADCAST),
             data, fails)

\* send_proprietary
send_proprietary(data, priority, fails) ==
    send_raw(calculate_pgn_can_id(PGN_PROPRIETARY_SINGLE_FRAME, priority,
                                  source_address, poco_address),
             data, fails)

\* "data = encode_...(...); self.send_proprietary(data, priority)": the
\* encoder's struct.error leaves before send_proprietary is reached.
Encoded(data, priority, fails) ==
    IF data = None THEN Raise("struct.error")
    ELSE send_proprietary(data[1], priority, fails)

\* One call of a method from the application thread.
Call(op, args, outcome) ==
    /\ mainpc = "ready"
    /\ call' = [ op |-> op, args |-> args, sent |-> outcome.sent ]
    /\ result' = outcome.result
    /\ UNCHANGED << config, caches, observers, transport, bus, notifier, mainpc,
                    pending, thread, history >>

\* send_raw and send_proprietary called by the application.
call_send_raw(can_id, data, fails) ==
    Call("send_raw", << can_id, data >>, send_raw(can_id, data, fails))

call_send_proprietary(data, priority, fails) ==
    Call("send_proprietary", << data, priority >>, send_proprietary(data, priority, fails))

\* Mutation: the enumerate request goes to the session's target.
enumerate_dest_addr_target == poco_address

\* send_enumerate_request, "dest_addr=0xFF  # Broadcast"
enumerate_dest_addr == BROADCAST

\* send_enumerate_request: the frame is built with dest_addr=0xFF; priority
\* goes to send_raw only.
send_enumerate_request(priority, fails) ==
    LET message == create_enumerate_request_message(source_address, enumerate_dest_addr)
    IN  Call("send_enumerate_request", << priority >>,
             send_raw(message[1], message[2][1], fails))

\* --- Level 0 ---
send_pli_raw(channel, pli_message, priority, fails) ==
    /\ level = "Level0"
    /\ Call("send_pli_raw", << channel, pli_message, priority >>,
            Encoded(encode_outch_pli_raw(channel, pli_message), priority, fails))

send_pli_t2hsb(channel, hue, saturation, brightness, pli_clan, transition, priority, fails) ==
    /\ level = "Level0"
    /\ Call("send_pli_t2hsb",
            << channel, hue, saturation, brightness, pli_clan, transition, priority >>,
            Encoded(encode_outch_pli_t2hsb(channel, hue, saturation, brightness,
                                           pli_clan, transition), priority, fails))

send_pli_t2rgb(channel, red, green, blue, pli_clan, transition, priority, fails) ==
    /\ level = "Level0"
    /\ Call("send_pli_t2rgb", << channel, red, green, blue, pli_clan, transition, priority >>,
            Encoded(encode_outch_pli_t2rgb(channel, red, green, blue, pli_clan, transition),
                    priority, fails))

send_pli_t2hs(channel, hue, saturation, pli_clan, transition, priority, fails) ==
    /\ level = "Level0"
    /\ Call("send_pli_t2hs", << channel, hue, saturation, pli_clan, transition, priority >>,
            Encoded(encode_outch_pli_t2hs(channel, hue, saturation, pli_clan, transition),
                    priority, fails))

send_pli_t2b(channel, brightness, pli_clan, transition, priority, fails) ==
    /\ level = "Level0"
    /\ Call("send_pli_t2b", << channel, brightness, pli_clan, transition, priority >>,
            Encoded(encode_outch_pli_t2b(channel, brightness, pli_clan, transition),
                    priority, fails))

send_pli_t2bd(channel, delta, pli_clan, transition, priority, fails) ==
    /\ level = "Level0"
    /\ Call("send_pli_t2bd", << channel, delta, pli_clan, transition, priority >>,
            Encoded(encode_outch_pli_t2bd(channel, delta, pli_clan, transition),
                    priority, fails))

send_pli_t2p(channel, pattern, pli_clan, transition, priority, fails) ==
    /\ level = "Level0"
    /\ Call("send_pli_t2p", << channel, pattern, pli_clan, transition, priority >>,
            Encoded(encode_outch_pli_t2p(channel, pattern, pli_clan, transition),
                    priority, fails))

request_channel_status(channel, priority, fails) ==
    /\ level = "Level0"
    /\ Call("request_channel_status", << channel, priority >>,
            Encoded(encode_outch_status_request(channel), priority, fails))

Level0_send_vsw_rgb(switch_id, red, green, blue, priority, fails) ==
    /\ level = "Level0"
    /\ Call("send_vsw_rgb", << switch_id, red, green, blue, priority >>,
            Encoded(encode_vsw_custom_rgb(switch_id, red, green, blue), priority, fails))

send_pwm_channel(channel, duty_cycle, priority, fails) ==
    /\ level = "Level0"
    /\ Call("send_pwm_channel", << channel, duty_cycle, priority >>,
            Encoded(encode_outch_pwm_channel(channel, duty_cycle), priority, fails))

\* state is a bool: "1 if state else 0"
send_binary_channel(channel, state, priority, fails) ==
    /\ level = "Level0"
    /\ Call("send_binary_channel", << channel, state, priority >>,
            Encoded(encode_outch_binary_channel(channel, IF state THEN 1 ELSE 0),
                    priority, fails))

\* --- Level 1 ---
\* The parameters send_binary_switch_control declares after self.
send_binary_switch_control_params == << "bank", "switch_states" >>

\* A Python call binds its positional arguments to the parameters, or
\* raises TypeError when there are more arguments than parameters.
Binds(params, positional) == Len(positional) <= Len(params)

\* send_binary_switch_control: priority 3, whatever the caller wants.
send_binary_switch_control_impl(bank, states, fails) ==
    send_raw(calculate_pgn_can_id(PGN_BINARY_SWITCH_CONTROL, 3, source_address, poco_address),
             encode_binary_switch_control(bank, states)[1], fails)

send_binary_switch_control(bank, states, fails) ==
    /\ level = "Level1"
    /\ Call("send_binary_switch_control", << bank, states >>,
            send_binary_switch_control_impl(bank, states, fails))

\* The list set_switch_bank builds from its dict: 3 everywhere, then 1 for
\* True and 0 for False at the ids 0..27 of the dict.  (A dict value is
\* written "True", "False" or "None".)
switch_states_of(switches) ==
    [ i \in 1..28 |->
        IF (i - 1) \in DOMAIN switches
        THEN IF switches[i - 1] = "True" THEN 1
             ELSE IF switches[i - 1] = "False" THEN 0
             ELSE 3
        ELSE 3 ]

\* set_switch_bank: the list, then
\* self.send_binary_switch_control(bank, switch_states, priority).
set_switch_bank(bank, switches, priority, fails) ==
    /\ level = "Level1"
    /\ Call("set_switch_bank", << bank, switches, priority >>,
            IF Binds(send_binary_switch_control_params,
                     << bank, switch_states_of(switches), priority >>)
            THEN send_binary_switch_control_impl(bank, switch_states_of(switches), fails)
            ELSE Raise("TypeError"))

\* query_switch_bank: bytes([bank] + [0xFF] * 7) wants bank in 0..255.
query_switch_bank(bank, priority, fails) ==
    /\ level = "Level1"
    /\ Call("query_switch_bank", << bank, priority >>,
            IF bank \in 0..255
            THEN send_raw(calculate_pgn_can_id(PGN_BINARY_SWITCH_STATUS, priority,
                                               source_address, poco_address),
                          << bank, 255, 255, 255, 255, 255, 255, 255 >>, fails)
            ELSE Raise("ValueError"))

\* --- Level 2 ---  (send_proprietary(data): priority 3 by default)
turn_on(switch_id, fails) ==
    /\ level = "Level2"
    /\ Call("turn_on", << switch_id >>,
            Encoded(create_vsw_turn_on_message(switch_id, source_address, poco_address)[2],
                    3, fails))

turn_off(switch_id, fails) ==
    /\ level = "Level2"
    /\ Call("turn_off", << switch_id >>,
            Encoded(create_vsw_turn_off_message(switch_id, source_address, poco_address)[2],
                    3, fails))

toggle(switch_id, fails) ==
    /\ level = "Level2"
    /\ Call("toggle", << switch_id >>,
            Encoded(encode_vsw_simple_action(switch_id, TOGGLE), 3, fails))

dim_up(switch_id, fails) ==
    /\ level = "Level2"
    /\ Call("dim_up", << switch_id >>,
            Encoded(encode_vsw_simple_action(switch_id, DIM_UP), 3, fails))

dim_down(switch_id, fails) ==
    /\ level = "Level2"
    /\ Call("dim_down", << switch_id >>,
            Encoded(encode_vsw_simple_action(switch_id, DIM_DOWN), 3, fails))

\* delta_brightness, "if not -128 <= delta <= 127: raise ValueError"
delta_in_range(delta) == -128 <= delta /\ delta <= 127

delta_brightness(switch_id, delta, fails) ==
    /\ level = "Level2"
    /\ Call("delta_brightness", << switch_id, delta >>,
            IF ~delta_in_range(delta) THEN Raise("ValueError")
            ELSE Encoded(encode_vsw_delta_brightness(switch_id, delta), 3, fails))

set_color_outcome(switch_id, hue, saturation, brightness, fails) ==
    Encoded(encode_vsw_hsb(switch_id, T2HSB, hue, saturation, brightness), 3, fails)

set_color(switch_id, hue, saturation, brightness, fails) ==
    /\ level = "Level2"
    /\ Call("set_color", << switch_id, hue, saturation, brightness >>,
            set_color_outcome(switch_id, hue, saturation, brightness, fails))

\* set_color_preset's table: name (lower case) -> (hue, saturation).
colors ==
    [ red |-> << 0, 255 >>, green |-> << 85, 255 >>, blue |-> << 170, 255 >>,
      cyan |-> << 127, 255 >>, magenta |-> << 212, 255 >>, yellow |-> << 42, 255 >>,
      white |-> << 0, 0 >> ]

\* color_name is given in lower case here.
set_color_preset(switch_id, color_name, brightness, fails) ==
    /\ level = "Level2"
    /\ Call("set_color_preset", << switch_id, color_name, brightness >>,
            IF color_name \notin DOMAIN colors THEN Raise("ValueError")
            ELSE set_color_outcome(switch_id, colors[color_name][1],
                                   colors[color_name][2], brightness, fails))

Level2_send_vsw_rgb(switch_id, red, green, blue, priority, fails) ==
    /\ level = "Level2"
    /\ Call("send_vsw_rgb", << switch_id, red, green, blue, priority >>,
            Encoded(encode_vsw_custom_rgb(switch_id, red, green, blue), priority, fails))

start_pocofx(switch_id, pocofx_id, fails) ==
    /\ level = "Level2"
    /\ Call("start_pocofx", << switch_id, pocofx_id >>,
            Encoded(encode_vsw_pocofx_start(switch_id, pocofx_id), 3, fails))

pause_pocofx(switch_id, fails) ==
    /\ level = "Level2"
    /\ Call("pause_pocofx", << switch_id >>,
            Encoded(encode_vsw_simple_action(switch_id, POCOFX_PAUSE), 3, fails))

query_switch_state(switch_id, fails) ==
    /\ level = "Level2"
    /\ Call("query_switch_state", << switch_id >>,
            Encoded(encode_vsw_state_query(switch_id), 3, fails))

\* ------------------------------------------------------------------------
\* The codec on its own: the functions of poco_can_protocol called directly,
\* as the protocol test does.  call records the function, its arguments and
\* what it returned (Some(value), or None where it raised); result is "ok"
\* or the exception.
\* ------------------------------------------------------------------------
EncoderOps ==
    { "encode_vsw_simple_action", "encode_vsw_hsb", "encode_vsw_custom_rgb",
      "encode_vsw_delta_brightness", "encode_vsw_pocofx_start",
      "encode_outch_binary_channel", "encode_outch_pwm_channel", "encode_outch_pli_raw",
      "encode_outch_pli_t2hsb", "encode_outch_pli_t2rgb", "encode_outch_pli_t2hs",
      "encode_outch_pli_t2b", "encode_outch_pli_t2bd", "encode_outch_pli_t2p",
      "encode_outch_status_request" }

\* The encoder of the given name applied to a tuple of arguments.
encode(op, a) ==
    CASE op = "encode_vsw_simple_action" -> encode_vsw_simple_action(a[1], a[2])
      [] op = "encode_vsw_hsb" -> encode_vsw_hsb(a[1], a[2], a[3], a[4], a[5])
      [] op = "encode_vsw_custom_rgb" -> encode_vsw_custom_rgb(a[1], a[2], a[3], a[4])
      [] op = "encode_vsw_delta_brightness" -> encode_vsw_delta_brightness(a[1], a[2])
      [] op = "encode_vsw_pocofx_start" -> encode_vsw_pocofx_start(a[1], a[2])
      [] op = "encode_outch_binary_channel" -> encode_outch_binary_channel(a[1], a[2])
      [] op = "encode_outch_pwm_channel" -> encode_outch_pwm_channel(a[1], a[2])
      [] op = "encode_outch_pli_raw" -> encode_outch_pli_raw(a[1], a[2])
      [] op = "encode_outch_pli_t2hsb" ->
             encode_outch_pli_t2hsb(a[1], a[2], a[3], a[4], a[5], a[6])
      [] op = "encode_outch_pli_t2rgb" ->
             encode_outch_pli_t2rgb(a[1], a[2], a[3], a[4], a[5], a[6])
      [] op = "encode_outch_pli_t2hs" -> encode_outch_pli_t2hs(a[1], a[2], a[3], a[4], a[5])
      [] op = "encode_outch_pli_t2b" -> encode_outch_pli_t2b(a[1], a[2], a[3], a[4])
      [] op = "encode_outch_pli_t2bd" -> encode_outch_pli_t2bd(a[1], a[2], a[3], a[4])
      [] op = "encode_outch_pli_t2p" -> encode_outch_pli_t2p(a[1], a[2], a[3], a[4])
      [] op = "encode_outch_status_request" -> encode_outch_status_request(a[1])

\* What a direct call of an encoder ends in.
Packed(value) ==
    [ result |-> IF value = None THEN "struct.error" ELSE "ok", sent |-> value ]

\* data = encode_...(...)
encode_call(op, a) == Call(op, a, Packed(encode(op, a)))

DecoderOps == { "decode_vsw_state_response", "decode_enumerate_response",
                "decode_outch_status" }

\* The decoder of the given name applied to a payload.
decode(op, data) ==
    CASE op = "decode_vsw_state_response" -> decode_vsw_state_response(data)
      [] op = "decode_enumerate_response" -> decode_enumerate_response(data)
      [] op = "decode_outch_status" -> decode_outch_status(data)

\* decode_outch_status: "if len(data) < 8: raise ValueError(...)"; the
\* other two decoders have no raise.
decode_raises(op, data) == op = "decode_outch_status" /\ Len(data) < 8

\* value = decode_...(data)
decode_call(op, data) ==
    Call(op, << data >>,
         [ result |-> IF decode_raises(op, data) THEN "ValueError" ELSE "ok",
           sent |-> IF decode_raises(op, data) THEN None ELSE decode(op, data) ])

\* data = encode_binary_switch_control(bank, switch_states)
encode_binary_switch_control_call(bank, states) ==
    Call("encode_binary_switch_control", << bank, states >>,
         Packed(encode_binary_switch_control(bank, states)))

\* can_id = calculate_pgn_can_id(pgn, priority, source_addr, destination_addr)
calculate_pgn_can_id_call(pgn, priority, source_addr, destination_addr) ==
    Call("calculate_pgn_can_id", << pgn, priority, source_addr, destination_addr >>,
         [ result |-> "ok",
           sent |-> calculate_pgn_can_id(pgn, priority, source_addr, destination_addr) ])

\* can_id, data = create_vsw_set_color_message(switch_id, hue, saturation,
\* brightness), the addresses and the priority left at their defaults 0,
\* 0xFF and 3.
create_vsw_set_color_message_call(switch_id, hue, saturation, brightness) ==
    LET message == create_vsw_set_color_message(switch_id, hue, saturation, brightness,
                                                0, 255, 3)
    IN  Call("create_vsw_set_color_message", << switch_id, hue, saturation, brightness >>,
             [ result |-> IF message[2] = None THEN "struct.error" ELSE "ok",
               sent |-> message ])

\* ------------------------------------------------------------------------
\* Specifications
\* ------------------------------------------------------------------------
AllCallbacks == [ i \in 1..NumCallbacks |-> i ]

\* The session after construction.
Constructed ==
    /\ level \in Levels
    /\ poco_address \in TargetAddresses
    /\ source_address = DEFAULT_SOURCE
    /\ bus = 0
    /\ notifier = 0
    /\ switch_states = EmptyDict
    /\ discovered_devices = EmptyDict
    /\ binary_switch_states = EmptyDict
    /\ state_callbacks = << >>
    /\ enumeration_callbacks = << >>
    /\ channel_status_callbacks = << >>
    /\ binary_callbacks = << >>

Quiet ==
    /\ mainpc = "ready"
    /\ pending = 0
    /\ result = "none"
    /\ rx = [ to |-> {}, current |-> 0 ]
    /\ disc = "no"
    /\ lateCallback = FALSE
    /\ escaped = FALSE
    /\ call = [ op |-> "none", args |-> << >>, sent |-> << >> ]

Unconnected ==
    /\ buses = {}
    /\ opened = 0
    /\ notifiers = EmptyDict
    /\ inbox = EmptyDict
    /\ thread = EmptyDict

Init == Constructed /\ Unconnected /\ Quiet

\* The arguments the send methods are explored with.
Addressings == { << BROADCAST, DEFAULT_SOURCE >>, << 33, DEFAULT_SOURCE >>, << 33, 17 >> }
Priorities == { 0, 3, 6, 7 }
SwitchIds == { 2, 256 }
Deltas == { -129, -128, -1, 0, 127, 128 }
Channels == { 1, 5 }
Banks == { 1, 256 }
SwitchDicts ==
    { << >>,
      [ i \in { 0 } |-> "True" ],
      [ i \in { 0, 5, 27, 28 } |-> IF i = 0 THEN "False" ELSE IF i = 5 THEN "None" ELSE "True" ] }
SwitchLists == { << >>, << 1, 0, 3 >>, [ i \in 1..29 |-> 1 ] }

SendBase(fails) ==
    \/ \E p \in Priorities : send_enumerate_request(p, fails)
    \/ call_send_raw(calculate_pgn_can_id(PGN_PROPRIETARY_SINGLE_FRAME, 3, source_address,
                                          BROADCAST),
                     << 1, 2, 3 >>, fails)
    \/ \E p \in { 3, 6 } : call_send_proprietary(encode_enumerate_request[1], p, fails)

SendLevel0(fails) ==
    \E ch \in Channels :
        \/ \E m \in { -1, 305419896 }, p \in { 3, 6 } : send_pli_raw(ch, m, p, fails)
        \/ \E hue \in { 85, 300 } : send_pli_t2hsb(ch, hue, 7, 16, 64, 8, 3, fails)
        \/ send_pli_t2rgb(ch, 255, 17, 31, 0, 0, 3, fails)
        \/ \E sat \in { -1, 9 } : send_pli_t2hs(ch, 170, sat, 5, 2, 3, fails)
        \/ \E bri \in { 128, 256 } : send_pli_t2b(ch, bri, 0, 0, 3, fails)
        \/ \E d \in Deltas : send_pli_t2bd(ch, d, 0, 0, 3, fails)
        \/ \E pattern \in { 3, 254 } : send_pli_t2p(ch, pattern, 0, 0, 3, fails)
        \/ request_channel_status(ch, 3, fails)
        \/ Level0_send_vsw_rgb(ch, 255, 256, 0, 3, fails)
        \/ \E duty \in { 128, 256 } : send_pwm_channel(ch, duty, 3, fails)
        \/ \E state \in BOOLEAN : send_binary_channel(ch * 64, state, 3, fails)

SendLevel1(fails) ==
    \E bank \in Banks :
        \/ \E switches \in SwitchDicts : set_switch_bank(bank, switches, 3, fails)
        \/ \E p \in { 3, 6 } : query_switch_bank(bank, p, fails)
        \/ \E list \in SwitchLists : send_binary_switch_control(bank, list, fails)

SendLevel2(fails) ==
    \E sw \in SwitchIds :
        \/ turn_on(sw, fails)
        \/ turn_off(sw, fails)
        \/ toggle(sw, fails)
        \/ dim_up(sw, fails)
        \/ dim_down(sw, fails)
        \/ \E d \in Deltas : delta_brightness(sw, d, fails)
        \/ set_color(sw, 85, 255, 300, fails)
        \/ \E name \in { "cyan", "pink" } : set_color_preset(sw, name, 255, fails)
        \/ Level2_send_vsw_rgb(sw, 255, 256, 0, 6, fails)
        \/ \E fx \in { 1, 257 } : start_pocofx(sw, fx, fails)
        \/ pause_pocofx(sw, fails)
        \/ query_switch_state(sw, fails)

Send ==
    \E fails \in BOOLEAN :
        SendBase(fails) \/ SendLevel0(fails) \/ SendLevel1(fails) \/ SendLevel2(fails)

Observe ==
    \E c \in Callbacks :
        \/ add_state_callback(c)
        \/ remove_state_callback(c)
        \/ add_enumeration_callback(c)
        \/ remove_enumeration_callback(c)
        \/ add_channel_status_callback(c)
        \/ remove_channel_status_callback(c)
        \/ add_binary_callback(c)
        \/ remove_binary_callback(c)

Lifecycle ==
    \/ connect(BOOLEAN)
    \/ disconnect_call
    \/ disconnect_return
    \/ \E c \in 0..NumCallbacks : start_listener_call(c)
    \/ start_listener_return

Next ==
    \/ Observe
    \/ Lifecycle
    \/ clear_discovered_devices
    \/ Send
    \/ \E msg \in Frames : Deliver(msg)
    \/ ThreadStep

Spec == Init /\ [][Next]_vars

\* Observer registration alone, from construction.
NextObservers == Observe
SpecObservers == Init /\ [][NextObservers]_vars

\* Dispatch alone: a session that has connected, registered every observer
\* its class has and started its listener, fed the frames of Frames.
InitDispatch ==
    /\ level \in Levels
    /\ poco_address \in TargetAddresses
    /\ source_address = DEFAULT_SOURCE
    /\ bus = 1
    /\ notifier = 1
    /\ switch_states = EmptyDict
    /\ discovered_devices = EmptyDict
    /\ binary_switch_states = EmptyDict
    /\ state_callbacks = AllCallbacks
    /\ enumeration_callbacks = AllCallbacks
    /\ channel_status_callbacks = IF level = "Level0" THEN AllCallbacks ELSE << >>
    /\ binary_callbacks = IF level = "Level1" THEN AllCallbacks ELSE << >>
    /\ buses = { 1 }
    /\ opened = 1
    /\ notifiers = Put(EmptyDict, 1, [ bus |-> 1, running |-> TRUE, callback |-> 0 ])
    /\ inbox = Put(EmptyDict, 1, None)
    /\ thread = Put(EmptyDict, 1, IdleThread("none"))
    /\ Quiet

NextDispatch ==
    \/ \E msg \in Frames : Deliver(msg)
    \/ Receive(1)
    \/ Invoke(1, BOOLEAN)
    \/ Hook(1)
    \/ Binary(1)
    \/ Listener(1)
    \/ Done(1, FALSE)

SpecDispatch == InitDispatch /\ [][NextDispatch]_vars

\* Dispatch of the frames of one device, the thread remembering the frame
\* before.
IsolationFrames == { msg \in Frames : msg.arbitration_id % 256 = 33 }

NextIsolation ==
    \/ \E msg \in IsolationFrames : Deliver(msg)
    \/ Receive(1)
    \/ Invoke(1, BOOLEAN)
    \/ Hook(1)
    \/ Binary(1)
    \/ Listener(1)
    \/ Done(1, TRUE)

SpecIsolation == InitDispatch /\ [][NextIsolation]_vars

\* The listener lifecycle: a session with every observer its class has,
\* not yet connected, the application connecting, (re)starting the listener,
\* clearing the device map and disconnecting while one device sends an
\* enumerate response, a switch state, a channel status and a bank status.
\* The observers here return normally.
ListenerFrames ==
    { Message(ArbitrationId(PGN_PROPRIETARY_SINGLE_FRAME, 3, 33, BROADCAST),
              encode_proprietary_header(NMEA2K_MANUFACTURER_LUMITEC,
                                        NMEA2K_INDUSTRY_MARINE, f[1]) \o f[2])
        : f \in { << ENUMERATE_RESPONSE, <<1, 0, 0, 66, 1>> >>,
                  << VSW_STATE, <<0, 17, 10, 20, 200>> >>,
                  << OUTPUTCH_STATUS, <<1, 11, 128, 60, 15>> >> } }
    \cup { Message(ArbitrationId(PGN_BINARY_SWITCH_STATUS, 3, 33, BROADCAST),
                   <<1, 212, 0>>) }

InitListener ==
    /\ level \in { "Level0", "Level1" }
    /\ poco_address = BROADCAST
    /\ source_address = DEFAULT_SOURCE
    /\ bus = 0
    /\ notifier = 0
    /\ switch_states = EmptyDict
    /\ discovered_devices = EmptyDict
    /\ binary_switch_states = EmptyDict
    /\ state_callbacks = AllCallbacks
    /\ enumeration_callbacks = AllCallbacks
    /\ channel_status_callbacks = IF level = "Level0" THEN AllCallbacks ELSE << >>
    /\ binary_callbacks = IF level = "Level1" THEN AllCallbacks ELSE << >>
    /\ Unconnected
    /\ Quiet

NextListener ==
    \/ connect({ TRUE })
    \/ disconnect_call
    \/ disconnect_return
    \/ \E c \in 0..1 : start_listener_call(c)
    \/ start_listener_return
    \/ clear_discovered_devices
    \/ \E msg \in ListenerFrames : Deliver(msg)
    \/ \E n \in 1..MaxNotifiers : Receive(n)
    \/ \E n \in 1..MaxNotifiers : Invoke(n, { FALSE })
    \/ \E n \in 1..MaxNotifiers : Hook(n)
    \/ \E n \in 1..MaxNotifiers : Binary(n)
    \/ \E n \in 1..MaxNotifiers : Listener(n)
    \/ \E n \in 1..MaxNotifiers : Done(n, FALSE)

SpecListener == InitListener /\ [][NextListener]_vars

\* Proprietary traffic at Level 0: a Level 0 session, connected and
\* listening with every observer registered, fed the proprietary-PGN frames
\* of Frames.
InitChannels == InitDispatch /\ level = "Level0"

NextChannels ==
    \/ \E msg \in ProprietaryFrames : Deliver(msg)
    \/ Receive(1)
    \/ Invoke(1, BOOLEAN)
    \/ Hook(1)
    \/ Binary(1)
    \/ Listener(1)
    \/ Done(1, FALSE)

SpecChannels == InitChannels /\ [][NextChannels]_vars

\* Bank status alone: a Level 1 session, connected and listening with every
\* observer registered, fed bank status frames of two banks from two
\* sources, of 0, 1, 2, 3 and 8 bytes.
BankFrames ==
    { Message(ArbitrationId(PGN_BINARY_SWITCH_STATUS, 3, r[1], r[2]), d)
        : <<r, d>> \in RxRoutes \X (RxBinaryData \cup { <<1>>, <<1, 27>> }) }

InitBanks == InitDispatch /\ level = "Level1"

NextBanks ==
    \/ \E msg \in BankFrames : Deliver(msg)
    \/ Receive(1)
    \/ Invoke(1, BOOLEAN)
    \/ Hook(1)
    \/ Binary(1)
    \/ Listener(1)
    \/ Done(1, FALSE)

SpecBanks == InitBanks /\ [][NextBanks]_vars

\* The registry under change: a base-class session with every observer
\* registered and its listener running, one device sending a switch state
\* and an enumerate response, the application adding and removing state
\* observers while frames are dispatched, and state and enumeration
\* observers that unregister themselves when called.  The observers return
\* normally.
RegistryFrames ==
    { msg \in ListenerFrames :
        msg.data[3] \in { ENUMERATE_RESPONSE, VSW_STATE } /\ Len(msg.data) = 8 }

InitRegistry == InitDispatch /\ level = "Base" /\ poco_address = BROADCAST

NextRegistry ==
    \/ \E msg \in RegistryFrames : Deliver(msg)
    \/ Receive(1)
    \/ Invoke(1, { FALSE })
    \/ InvokeUnregistering(1)
    \/ Hook(1)
    \/ Binary(1)
    \/ Listener(1)
    \/ Done(1, FALSE)
    \/ \E c \in Callbacks : add_state_callback(c)
    \/ \E c \in Callbacks : remove_state_callback(c)

SpecRegistry == InitRegistry /\ [][NextRegistry]_vars

\* The outbound side: a session of any class, target and source address,
\* the application connecting (the transport may refuse), disconnecting,
\* calling the send methods, the transport free to fail each send, and
\* asking for the listener while disconnected.  No listener runs.
InitOutbound ==
    /\ level \in Levels
    /\ \E a \in Addressings : poco_address = a[1] /\ source_address = a[2]
    /\ bus = 0
    /\ notifier = 0
    /\ switch_states = EmptyDict
    /\ discovered_devices = EmptyDict
    /\ binary_switch_states = EmptyDict
    /\ state_callbacks = << >>
    /\ enumeration_callbacks = << >>
    /\ channel_status_callbacks = << >>
    /\ binary_callbacks = << >>
    /\ Unconnected
    /\ Quiet

NextOutbound ==
    \/ connect(BOOLEAN)
    \/ disconnect_call
    \/ (bus = 0 /\ start_listener_call(0))
    \/ \E fails \in BOOLEAN : SendBase(fails)
    \/ \E fails \in BOOLEAN : SendLevel0(fails)
    \/ \E fails \in BOOLEAN : SendLevel1(fails)
    \/ \E fails \in BOOLEAN : SendLevel2(fails)

SpecOutbound == InitOutbound /\ [][NextOutbound]_vars

\* The arguments the encoders are explored with: values inside the
\* documented ranges, at their bounds, and outside on both sides.
Product2(S1, S2) == { << x, y >> : x \in S1, y \in S2 }
Product4(S1, S2, S3, S4) ==
    { << w, x, y, z >> : w \in S1, x \in S2, y \in S3, z \in S4 }
EncoderArgs(op) ==
    CASE op = "encode_vsw_simple_action" -> Product2({ 0, 5, 31, 256 }, { OFF, ON, TOGGLE })
      [] op = "encode_vsw_hsb" ->
             { << sw, act, h, s, b >> : sw \in { 0, 2, 255 }, act \in { T2HSB, T2HS, T2B },
                                        h \in { 0, 85, 255, 300 }, s \in { 0, 255 },
                                        b \in { 0, 200, 255 } }
      [] op = "encode_vsw_custom_rgb" ->
             Product4({ 2, 31 }, { 0, 255 }, { 17, 256 }, { 0, 255 })
      [] op = "encode_vsw_delta_brightness" -> Product2({ 2 }, Deltas)
      [] op = "encode_vsw_pocofx_start" -> Product2(0..31, { 0, 1, 7, 255 })
      [] op = "encode_outch_binary_channel" -> Product2({ 1, 4, 99, 320 }, { 0, 1 })
      [] op = "encode_outch_pwm_channel" -> Product2({ 1, 4, 99 }, { 0, 100, 150, 256 })
      [] op = "encode_outch_pli_raw" -> Product2({ 1, 4, 5 }, { -1, 0, 305419896 })
      [] op = "encode_outch_pli_t2hsb" ->
             { << ch, h, s, b, clan, tr >> : ch \in { 1, 99 }, h \in { 85, 300 }, s \in { 7, 16 },
                                              b \in { 15, 16 }, clan \in { 0, 200 },
                                              tr \in { 0, 9 } }
      [] op = "encode_outch_pli_t2rgb" ->
             { << ch, r, g, b, clan, tr >> : ch \in { -1, 4 }, r \in { 31, 255 }, g \in { 17 },
                                              b \in { -1, 31 }, clan \in { 63 }, tr \in { 7 } }
      [] op = "encode_outch_pli_t2hs" ->
             { << ch, h, s, clan, tr >> : ch \in { 1 }, h \in { -1, 170 }, s \in { -1, 9, 16 },
                                           clan \in { 5, 64 }, tr \in { 2 } }
      [] op = "encode_outch_pli_t2b" -> Product4({ 1, 5 }, { -1, 128, 256 }, { 0 }, { 0, 8 })
      [] op = "encode_outch_pli_t2bd" -> Product4({ 1 }, Deltas, { 0 }, { 0 })
      [] op = "encode_outch_pli_t2p" ->
             Product4({ 1 }, { 0, 1, 2, 3, 252, 253, 254, 300 }, { 0 }, { 0 })
      [] op = "encode_outch_status_request" -> { << ch >> : ch \in { -1, 0, 4, 5, 99 } }

\* Switch lists over Off=0, On=1, NoChange=3: short ones and 28-long ones.
TriStateLists ==
    { << 1, 0, 1, 0 >>, << 1, 1 >>, << 1, 0, 1, 0 >> \o [ i \in 1..24 |-> 3 ] }
    \cup { [ i \in 1..28 |-> v ] : v \in { 0, 1, 3 } }
    \cup { [ i \in 1..28 |-> << 0, 1, 3 >>[((i * k) % 3) + 1] ] : k \in 1..2 }
    \cup { [ i \in 1..28 |-> IF i = k THEN 1 ELSE 3 ] : k \in { 1, 4, 5, 28 } }

InitCodec == Init /\ level = "Base" /\ poco_address = BROADCAST

\* The PGNs identifiers are computed for: PDU1 and PDU2, on data page 0 and 1.
Pgns == { 59904, PGN_PROPRIETARY_SINGLE_FRAME, 65280, 126720, PGN_BINARY_SWITCH_STATUS,
          PGN_BINARY_SWITCH_CONTROL, 130816 }

NextCodec ==
    \/ \E op \in EncoderOps : \E a \in EncoderArgs(op) : encode_call(op, a)
    \/ \E bank \in { 0, 1, 255, 256 }, states \in SwitchLists \cup TriStateLists :
           encode_binary_switch_control_call(bank, states)
    \/ \E op \in DecoderOps : \E data \in { << >> } \cup RxShortData \cup RxLongData :
           decode_call(op, data)
    \/ \E pgn \in Pgns, priority \in 0..7, source_addr \in { 0, 253, 255 },
          destination_addr \in { 0, 33, 255 } :
           calculate_pgn_can_id_call(pgn, priority, source_addr, destination_addr)
    \/ \E a \in EncoderArgs("encode_vsw_hsb") :
           create_vsw_set_color_message_call(a[1], a[3], a[4], a[5])

SpecCodec == InitCodec /\ [][NextCodec]_vars

\* ------------------------------------------------------------------------
\* Properties
\* ------------------------------------------------------------------------

\* Threads that have finished the dispatch of a frame and not yet left it.
Finished == { n \in DOMAIN thread : thread[n].pc = "fin" }

\* The callbacks of one observer list called for the frame, in call order.
Called(t, loop) ==
    LET entries == SelectSeq(t.log, LAMBDA e : e[1] = loop)
    IN  [ i \in 1..Len(entries) |-> entries[i][2] ]

\* The frame came on the proprietary PGN.
OnProprietaryPgn(msg) == msg \in ProprietaryFrames

\* The first two payload bytes are the Lumitec / Marine header.
LumitecHeader(data) ==
    /\ Len(data) >= 2
    /\ SubSeq(data, 1, 2) = SubSeq(encode_proprietary_header(
           NMEA2K_MANUFACTURER_LUMITEC, NMEA2K_INDUSTRY_MARINE, 0), 1, 2)

\* A well-formed VSW_STATE frame.
ValidStateFrame(msg) ==
    /\ OnProprietaryPgn(msg)
    /\ Len(msg.data) = 8
    /\ LumitecHeader(msg.data)
    /\ msg.data[3] = VSW_STATE

\* An ENUMERATE_RESPONSE frame the dispatcher takes up.
EnumerateFrame(msg) ==
    /\ OnProprietaryPgn(msg)
    /\ Len(msg.data) >= 8
    /\ msg.data[3] = ENUMERATE_RESPONSE

\* The frame passes the source-address filter as the session is configured.
FromTarget(msg) ==
    poco_address = BROADCAST \/ msg.arbitration_id % 256 = poco_address

\* The switch state a VSW_STATE payload stands for: bytes 3..7, the derived
\* fields set for their colour type alone and at their defaults otherwise.
StateOf(data) ==
    LET ct == data[5] \div 16
    IN  [ switch_id |-> data[4],
          is_on |-> (data[5] % 2 = 1),
          color_type |-> ct,
          color_data_0 |-> data[6],
          color_data_1 |-> data[7],
          brightness |-> data[8],
          hue |-> IF ct = HUE_SAT THEN data[6] ELSE 0,
          saturation |-> IF ct = HUE_SAT THEN data[7] ELSE 255,
          pocofx_id |-> IF ct = FX_ID THEN data[6] ELSE 0,
          cct_kelvin |-> IF ct = CCT THEN data[7] * 256 + data[6] ELSE 0,
          mutex_index |-> IF ct = MUTEX THEN data[6] ELSE 0 ]

\* The device entry an ENUMERATE_RESPONSE payload from address a stands for.
DeviceOf(a, data) ==
    [ can_address |-> a,
      device_id |-> data[4] + data[5] * 256 + data[6] * 65536,
      protocol_version |-> data[7] % 16,
      num_channels |-> data[7] \div 16,
      expander_role |-> (data[8] % 2 = 1) ]

\* C1 (dispatch isolation): no exception leaves handle_message and the
\* reader thread never dies, whatever frames came before and whatever the
\* callbacks raised; and when the dispatch of a well-formed VSW_STATE frame
\* from an accepted source is finished, the switch-state cache holds that
\* frame's state and every registered state callback has been called for it.
C1_DispatchIsolation ==
    /\ ~escaped
    /\ \A n \in DOMAIN thread : thread[n].pc # "dead"
    /\ \A n \in Finished :
         LET t == thread[n]
             msg == t.msg[1]
         IN  (ValidStateFrame(msg) /\ FromTarget(msg)) =>
                 /\ Get(switch_states, msg.data[4]) = Some(StateOf(msg.data))
                 /\ Called(t, "state") = state_callbacks

\* C1 witness: a well-formed VSW_STATE frame was dispatched to the end right
\* after a frame of under 8 bytes, and the state callbacks were called.
C1_Witness ==
    \E n \in Finished :
        /\ thread[n].prev = "short"
        /\ ValidStateFrame(thread[n].msg[1])
        /\ Called(thread[n], "state") = state_callbacks
        /\ Len(state_callbacks) >= 2
        /\ thread[n].msg[1].data[4] \in DOMAIN switch_states

\* C2 (source-address filter), as claimed for every class: a frame from a
\* source other than a non-broadcast poco_address, unless it is a
\* proprietary-PGN frame with PID byte ENUMERATE_RESPONSE, leaves the three
\* caches as they were and calls no observer.
C2_SourceFilter ==
    \A n \in Finished :
        LET t == thread[n]
            msg == t.msg[1]
        IN  ( /\ poco_address # BROADCAST
              /\ msg.arbitration_id % 256 # poco_address
              /\ ~( OnProprietaryPgn(msg) /\ Len(msg.data) >= 3
                    /\ msg.data[3] = ENUMERATE_RESPONSE ) )
            => ( Caches = t.pre[1] /\ t.log = << >> )

\* C3 (foreign traffic is inert), as claimed: a proprietary-PGN frame whose
\* header is not Lumitec / Marine leaves the discovered-devices map and the
\* switch-state cache as they were and calls no enumeration, state or
\* channel-status callback.
C3_ForeignInert ==
    \A n \in Finished :
        LET t == thread[n]
            msg == t.msg[1]
        IN  ( OnProprietaryPgn(msg) /\ Len(msg.data) >= 2 /\ ~LumitecHeader(msg.data) )
            => ( /\ discovered_devices = t.pre[1].dev
                 /\ switch_states = t.pre[1].sw
                 /\ Called(t, "enum") = << >>
                 /\ Called(t, "state") = << >>
                 /\ Called(t, "chan") = << >> )

\* C4 (the device map is replaced, never merged): when the dispatch of an
\* ENUMERATE_RESPONSE frame from address a is finished, the map is the map
\* from before the frame with the entry of a set to the device this frame
\* alone stands for.
C4_DeviceReplaced ==
    \A n \in Finished :
        LET t == thread[n]
            msg == t.msg[1]
            a == msg.arbitration_id % 256
        IN  EnumerateFrame(msg) =>
                discovered_devices = Put(t.pre[1].dev, a, DeviceOf(a, msg.data))

\* C4 witness: a response was dispatched from an address the map already
\* held with another device id, while the map held a second address too.
C4_Witness ==
    \E n \in Finished :
        LET t == thread[n]
            msg == t.msg[1]
            a == msg.arbitration_id % 256
        IN  /\ EnumerateFrame(msg)
            /\ a \in DOMAIN t.pre[1].dev
            /\ t.pre[1].dev[a].device_id # discovered_devices[a].device_id
            /\ t.pre[1].dev[a].expander_role # discovered_devices[a].expander_role
            /\ Cardinality(DOMAIN discovered_devices) = 2

\* C5 (the switch state is replaced wholesale): when the dispatch of a
\* well-formed VSW_STATE frame from an accepted source is finished, the
\* cache is the cache from before the frame with the entry of switch byte 3
\* set to the state the frame alone stands for, derived fields the colour
\* type does not define at their defaults.
C5_StateReplaced ==
    \A n \in Finished :
        LET t == thread[n]
            msg == t.msg[1]
        IN  (ValidStateFrame(msg) /\ FromTarget(msg)) =>
                switch_states = Put(t.pre[1].sw, msg.data[4], StateOf(msg.data))

\* C5 witness: a frame whose colour type is not HueSat replaced a cached
\* HueSat state with non-default hue and saturation, another switch cached.
C5_Witness ==
    \E n \in Finished :
        LET t == thread[n]
            msg == t.msg[1]
            k == msg.data[4]
        IN  /\ ValidStateFrame(msg)
            /\ k \in DOMAIN t.pre[1].sw
            /\ t.pre[1].sw[k].color_type = HUE_SAT
            /\ t.pre[1].sw[k].hue # 0
            /\ t.pre[1].sw[k].saturation # 255
            /\ switch_states[k].color_type # HUE_SAT
            /\ Cardinality(DOMAIN switch_states) = 2

\* C6 (callback exception isolation): when the dispatch of a frame is
\* finished, every observer list of which a callback was called for the
\* frame has had all its callbacks called, in order, whichever of them
\* raised; and the entry written for the frame is still in its cache.
C6_CallbackIsolation ==
    \A n \in Finished :
        LET t == thread[n]
            msg == t.msg[1]
        IN  /\ \A loop \in { "enum", "state", "chan", "bin" } :
                 Called(t, loop) # << >> => Called(t, loop) = CallbackList(loop)
            /\ Called(t, "state") # << >> =>
                 Get(switch_states, msg.data[4]) = Some(StateOf(msg.data))
            /\ Called(t, "enum") # << >> =>
                 Get(discovered_devices, msg.arbitration_id % 256)
                     = Some(DeviceOf(msg.arbitration_id % 256, msg.data))
            /\ Called(t, "bin") # << >> =>
                 msg.data[1] \in DOMAIN binary_switch_states

\* C6 witness: the first callback of a list raised and a later one of the
\* same list was called after it.
C6_Witness ==
    \E n \in Finished :
        LET log == thread[n].log
        IN  /\ Len(log) >= 2
            /\ log[1][3]
            /\ log[2][1] = log[1][1]
            /\ log[2][2] # log[1][2]

\* The callbacks a list holds.
Members(list) == { list[i] : i \in 1..Len(list) }

NoDuplicates(list) ==
    \A i, j \in 1..Len(list) : list[i] = list[j] => i = j

\* a comes before b in the list.
Before(list, a, b) ==
    \E i, j \in 1..Len(list) : i < j /\ list[i] = a /\ list[j] = b

\* The callbacks both lists hold are in the same order in both.
KeepsOrder(old, new) ==
    \A a, b \in Members(old) \cap Members(new) :
        Before(old, a, b) <=> Before(new, a, b)

\* new is old as an ordered set after c was added.
AddedTo(old, new, c) ==
    /\ NoDuplicates(new)
    /\ Members(new) = Members(old) \cup { c }
    /\ KeepsOrder(old, new)
    /\ c \in Members(old) => new = old
    /\ c \notin Members(old) => new[Len(new)] = c

\* new is old as an ordered set after c was removed.
RemovedFrom(old, new, c) ==
    /\ NoDuplicates(new)
    /\ Members(new) = Members(old) \ { c }
    /\ KeepsOrder(old, new)
    /\ c \notin Members(old) => new = old

\* C7 (observer sets are ordered sets): every add and every remove on a
\* callback list leaves the list free of duplicates, with the callbacks it
\* kept in the order they were in and a newly added one last; adding a
\* registered callback and removing an unregistered one leave the list as it
\* was; the call returns normally and the other three lists are untouched.
C7_ObserverSets ==
    [][ \A c \in Callbacks :
          /\ add_state_callback(c) =>
               /\ AddedTo(state_callbacks, state_callbacks', c)
               /\ result' = "ok"
               /\ UNCHANGED << enumeration_callbacks, channel_status_callbacks,
                               binary_callbacks >>
          /\ remove_state_callback(c) =>
               /\ RemovedFrom(state_callbacks, state_callbacks', c)
               /\ result' = "ok"
               /\ UNCHANGED << enumeration_callbacks, channel_status_callbacks,
                               binary_callbacks >>
          /\ add_enumeration_callback(c) =>
               /\ AddedTo(enumeration_callbacks, enumeration_callbacks', c)
               /\ result' = "ok"
               /\ UNCHANGED << state_callbacks, channel_status_callbacks,
                               binary_callbacks >>
          /\ remove_enumeration_callback(c) =>
               /\ RemovedFrom(enumeration_callbacks, enumeration_callbacks', c)
               /\ result' = "ok"
               /\ UNCHANGED << state_callbacks, channel_status_callbacks,
                               binary_callbacks >>
          /\ add_channel_status_callback(c) =>
               /\ AddedTo(channel_status_callbacks, channel_status_callbacks', c)
               /\ result' = "ok"
               /\ UNCHANGED << state_callbacks, enumeration_callbacks,
                               binary_callbacks >>
          /\ remove_channel_status_callback(c) =>
               /\ RemovedFrom(channel_status_callbacks, channel_status_callbacks', c)
               /\ result' = "ok"
               /\ UNCHANGED << state_callbacks, enumeration_callbacks,
                               binary_callbacks >>
          /\ add_binary_callback(c) =>
               /\ AddedTo(binary_callbacks, binary_callbacks', c)
               /\ result' = "ok"
               /\ UNCHANGED << state_callbacks, enumeration_callbacks,
                               channel_status_callbacks >>
          /\ remove_binary_callback(c) =>
               /\ RemovedFrom(binary_callbacks, binary_callbacks', c)
               /\ result' = "ok"
               /\ UNCHANGED << state_callbacks, enumeration_callbacks,
                               channel_status_callbacks >>
      ]_vars

\* C7 witness: three lists of a Level 0 session hold callbacks in three
\* different orders of registration after calls that returned normally.
C7_Witness ==
    /\ level = "Level0"
    /\ state_callbacks = << 2, 1 >>
    /\ enumeration_callbacks = << 1, 2 >>
    /\ channel_status_callbacks = << 2 >>
    /\ result = "ok"

\* The notifiers whose reader thread would take a frame from recv().
Attached == { n \in DOMAIN notifiers : notifiers[n].running }

\* C8 (start_listener is idempotent): at most one listener is attached, and
\* it is the session's; a frame reaches that listener alone, so it is
\* dispatched once; once start_listener has returned, the session has a
\* listener attached, and every earlier listener, with the per-message
\* callback it was started with, is out of its last frame and holds none.
C8_ListenerIdempotent ==
    /\ Attached \subseteq { notifier }
    /\ Cardinality(rx.to) <= 1
    /\ rx.to \subseteq { rx.current }
    /\ (mainpc = "ready" /\ notifier # 0) =>
           /\ Attached = { notifier }
           /\ \A n \in DOMAIN notifiers \ { notifier } :
                /\ thread[n].pc = "idle"
                /\ inbox[n] = None

\* C8 witness: the listener was started a second time, the first with a
\* per-message callback, and a frame that came after that has been
\* dispatched by the second listener, to its per-message callback too.
C8_Witness ==
    /\ notifier = 2
    /\ notifiers[1].callback # 0
    /\ rx = [ to |-> { 2 }, current |-> 2 ]
    /\ thread[2].pc = "fin"
    /\ Called(thread[2], "user") # << >>
    /\ Called(thread[2], "state") = state_callbacks

Window(t) ==
    IF t.pc = "base" /\ t.loop = "enum"
    THEN { << "discovered_devices", t.msg[1].arbitration_id % 256 >> }
    ELSE IF t.pc = "base" /\ t.loop = "state"
    THEN { << "switch_states", t.msg[1].data[4] >> }
    ELSE IF t.pc = "bin" /\ t.loop = "bin"
    THEN { << "binary_switch_states", t.msg[1].data[1] >> }
    ELSE {}

SendStep == call' # call

\* Neither caches nor observer lists change in the step.
DataUnchanged == UNCHANGED << caches, observers >>

\* C11 (lifecycle misuse is safe): whatever is called on a disconnected
\* session short of connect leaves it disconnected, without a listener, its
\* caches and observer lists as they were; a send method called then ends
\* in an error and hands no frame to the bus; start_listener ends in
\* RuntimeError; disconnect ends normally and changes nothing of the session.
C11_MisuseSafe ==
    [][ (bus = 0 /\ notifier = 0 /\ opened' = opened) =>
            /\ bus' = 0
            /\ notifier' = 0
            /\ buses' = buses
            /\ notifiers' = notifiers
            /\ DataUnchanged
            /\ mainpc' = "ready"
            /\ SendStep => (call'.sent = << >> /\ result' \notin { "ok", "none" })
            /\ (\E c \in 0..NumCallbacks : start_listener_call(c)) => result' = "RuntimeError"
            /\ disconnect_call => result' = "ok" ]_vars

\* C11 witness: a session that was connected and has disconnected, on which
\* a facade method was then called and ended in RuntimeError, nothing sent.
C11_Witness ==
    /\ bus = 0
    /\ disc = "idle"
    /\ opened > 0
    /\ call.op = "send_pli_t2hsb"
    /\ call.sent = << >>
    /\ result = "RuntimeError"

\* What a session is: connected or not, its listener, its caches and its
\* observer lists, with the buses and notifiers behind them.
SessionUnchanged ==
    UNCHANGED << config, bus, notifier, buses, notifiers, caches, observers >>

\* C12 (transport errors propagate, nothing is retried): a send method
\* hands at most one frame to the bus, exactly one when it returns normally;
\* when the bus refuses the frame the call ends in the bus's CanError, and an
\* error after an attempt is that error; no send changes the session.  A
\* connect the transport refuses ends in the transport's error and leaves the
\* session as it was; one that succeeds has opened one bus.
C12_ErrorsPropagate ==
    [][ /\ SendStep =>
             /\ Len(call'.sent) <= 1
             /\ result' = "ok" => Len(call'.sent) = 1
             /\ result' = "CanError" => Len(call'.sent) = 1
             /\ (Len(call'.sent) = 1 /\ result' # "ok") => result' = "CanError"
             /\ SessionUnchanged
        /\ connect({ FALSE }) => (result' = "TransportError" /\ SessionUnchanged)
        /\ connect({ TRUE }) => (result' = "ok" /\ buses' = buses \cup { bus' }
                                 /\ Cardinality(buses') = Cardinality(buses) + 1) ]_vars

\* C12 witness: on a connected session the bus has refused the one frame a
\* facade method handed to it, and the method ended in CanError.
C12_Witness ==
    /\ bus # 0
    /\ call.op = "query_switch_bank"
    /\ Len(call.sent) = 1
    /\ result = "CanError"

\* The fields of the CAN id of a frame handed to the bus: priority (bits
\* 26-28), PDU format, PS byte, source byte, and the PGN they spell.
SentPriority(f) == (f.can_id.id \div 67108864) % 8
SentPF(f) == (f.can_id.id \div 65536) % 256
SentPS(f) == (f.can_id.id \div 256) % 256
SentSource(f) == f.can_id.id % 256
SentPgn(f) ==
    ((f.can_id.id \div 16777216) % 2) * 65536 + SentPF(f) * 256
    + (IF SentPF(f) < 240 THEN 0 ELSE SentPS(f))

\* The frames of a call that are proprietary-PGN frames with the given PID
\* byte.
ProprietarySent(c, pid) ==
    { i \in 1..Len(c.sent) :
        /\ SentPgn(c.sent[i]) = PGN_PROPRIETARY_SINGLE_FRAME
        /\ Len(c.sent[i].data) >= 3
        /\ c.sent[i].data[3] = pid }

\* C13 (delta_brightness validates), as claimed: a delta outside -128..127
\* ends in ValueError with nothing handed to the bus, and only then; with a
\* delta inside, on a connected session, the call hands exactly one frame to
\* the bus, a proprietary-PGN frame with PID 6, and ends in no error of its
\* own (the bus may still refuse the frame).
C13_DeltaValidated ==
    [][ (SendStep /\ call'.op = "delta_brightness") =>
            LET delta == call'.args[2]
            IN  /\ (delta < -128 \/ delta > 127) <=> result' = "ValueError"
                /\ result' = "ValueError" => call'.sent = << >>
                /\ (-128 <= delta /\ delta <= 127 /\ bus # 0) =>
                       /\ result' \in { "ok", "CanError" }
                       /\ Len(call'.sent) = 1
                       /\ ProprietarySent(call', VSW_DELTABRIGHT) = { 1 } ]_vars

\* delta mod 256, the two's-complement byte of a signed delta.
TwosComplement(delta) == delta % 256

\* C14 (signed deltas in two's complement), as claimed: for a delta in
\* -128..127 and a switch id that is a byte, encode_vsw_delta_brightness
\* returns 8 bytes, byte 3 = 5, byte 4 = the switch id, byte 5 = delta mod
\* 256, bytes 6-7 = 0xFF; and encode_outch_pli_t2bd returns a payload whose
\* byte 6 is clamp(delta, -127, 127) mod 256 and whose byte 7 is 0xFF.
C14_TwosComplement ==
    /\ ( /\ call.op = "delta_brightness"
         /\ call.args[1] \in 0..255
         /\ call.args[2] \in -128..127 ) =>
           LET data == encode_vsw_delta_brightness(call.args[1], call.args[2])
           IN  /\ data # None
               /\ Len(data[1]) = 8
               /\ data[1][4] = 5
               /\ data[1][5] = call.args[1]
               /\ data[1][6] = TwosComplement(call.args[2])
               /\ data[1][7] = 255
               /\ data[1][8] = 255
    /\ call.op = "send_pli_t2bd" =>
           LET data == encode_outch_pli_t2bd(call.args[1], call.args[2],
                                             call.args[3], call.args[4])
           IN  /\ data # None
               /\ Len(data[1]) = 8
               /\ data[1][7] = TwosComplement(Clamp(-127, 127, call.args[2]))
               /\ data[1][8] = 255

\* The two-bit field of switch i (0..27) in a bank payload.
SwitchField(data, i) == (data[2 + i \div 4] \div (4 ^ (i % 4))) % 4

\* The field set_switch_bank is to send for switch i of its mapping.
FieldFor(switches, i) ==
    IF i \notin DOMAIN switches THEN 3
    ELSE IF switches[i] = "True" THEN 1
    ELSE IF switches[i] = "False" THEN 0
    ELSE 3

\* C15 (set_switch_bank), as claimed: on a connected session
\* set_switch_bank(bank, switches) hands exactly one frame to the bus, of
\* PGN 127502, 8 bytes, byte 0 the bank, the field of each switch 0..27
\* being 1 for True, 0 for False and 3 for None or absent.
C15_SwitchBank ==
    [][ ( /\ SendStep
          /\ call'.op = "set_switch_bank"
          /\ call'.args[1] \in 0..255
          /\ bus # 0 ) =>
            /\ Len(call'.sent) = 1
            /\ SentPgn(call'.sent[1]) = PGN_BINARY_SWITCH_CONTROL
            /\ Len(call'.sent[1].data) = 8
            /\ call'.sent[1].data[1] = call'.args[1]
            /\ \A i \in 0..27 :
                 SwitchField(call'.sent[1].data, i) = FieldFor(call'.args[2], i) ]_vars

\* C16 (send_enumerate_request always broadcasts): on a connected session
\* the call hands exactly one frame to the bus: proprietary PGN, 8 bytes of
\* payload with PID 128 in byte 2, 0 in byte 3 and 0xFF in bytes 4-7, the
\* PS byte of its id 0xFF and the source byte the session's source address,
\* whatever poco_address is.
C16_EnumerateBroadcast ==
    [][ (SendStep /\ call'.op = "send_enumerate_request" /\ bus # 0) =>
            /\ Len(call'.sent) = 1
            /\ ProprietarySent(call', 128) = { 1 }
            /\ Len(call'.sent[1].data) = 8
            /\ call'.sent[1].data[4] = 0
            /\ \A i \in 5..8 : call'.sent[1].data[i] = 255
            /\ SentPS(call'.sent[1]) = 255
            /\ SentSource(call'.sent[1]) = source_address ]_vars

\* C16 witness: a session whose target is one device, and whose source
\* address is not the default, has sent an enumerate request.
C16_Witness ==
    /\ poco_address # BROADCAST
    /\ source_address # DEFAULT_SOURCE
    /\ bus # 0
    /\ call.op = "send_enumerate_request"
    /\ Len(call.sent) = 1
    /\ result = "ok"

\* C17 (the priority of send_enumerate_request), as claimed: the frame
\* send_enumerate_request(priority) hands to the bus carries that priority,
\* 0..7, in bits 26-28 of its id.
C17_EnumeratePriority ==
    [][ (SendStep /\ call'.op = "send_enumerate_request" /\ bus # 0) =>
            /\ Len(call'.sent) = 1
            /\ SentPriority(call'.sent[1]) = call'.args[1] ]_vars

\* A step that is a call of a facade method of Level 0, 1 or 2.
FacadeStep ==
    /\ SendStep
    /\ call'.op \notin { "send_raw", "send_proprietary", "send_enumerate_request" }

CalledWith(t, loop) ==
    LET entries == SelectSeq(t.log, LAMBDA e : e[1] = loop)
    IN  [ i \in 1..Len(entries) |-> entries[i][4] ]

BankOf(data) ==
    [ j \in 1..28 |->
        IF 1 + ((j - 1) \div 4) + 1 > Len(data) THEN 3
        ELSE (data[1 + ((j - 1) \div 4) + 1] \div (4 ^ ((j - 1) % 4))) % 4 ]

\* C20 (binary switch bank status): when a Level 1 session has finished a
\* PGN 127501 frame with at least one data byte, the cache holds under bank
\* = byte 0 exactly the 28 values of the payload, whatever it held there
\* before; it holds what it held before under every other bank, and no
\* further bank; and every binary callback was called, in order, with that
\* bank and those 28 values.
C20_BankStatus ==
    \A n \in Finished :
        LET t == thread[n]
            msg == t.msg[1]
            bank == msg.data[1]
        IN  ( /\ level = "Level1"
              /\ (msg.arbitration_id \div 256) % 262144 = PGN_BINARY_SWITCH_STATUS
              /\ Len(msg.data) >= 1 ) =>
                /\ Get(binary_switch_states, bank) = Some(BankOf(msg.data))
                /\ Len(binary_switch_states[bank]) = 28
                /\ DOMAIN binary_switch_states = DOMAIN t.pre[1].bin \cup { bank }
                /\ \A b \in DOMAIN t.pre[1].bin :
                     b # bank => binary_switch_states[b] = t.pre[1].bin[b]
                /\ Called(t, "bin") = binary_callbacks
                /\ \A i \in 1..Len(CalledWith(t, "bin")) :
                     CalledWith(t, "bin")[i] = << bank, BankOf(msg.data) >>

\* C20 witness: a one-byte status of a bank has replaced the values cached
\* for that bank, another bank being cached too, and both binary callbacks
\* were called.
C20_Witness ==
    \E n \in Finished :
        LET t == thread[n]
            msg == t.msg[1]
        IN  /\ level = "Level1"
            /\ Len(msg.data) = 1
            /\ msg.data[1] \in DOMAIN t.pre[1].bin
            /\ t.pre[1].bin[msg.data[1]] # binary_switch_states[msg.data[1]]
            /\ Cardinality(DOMAIN binary_switch_states) = 2
            /\ Len(CalledWith(t, "bin")) = Len(binary_callbacks)
            /\ Len(binary_callbacks) >= 2

\* The documented range of each argument of each encoder (the Args sections
\* of the docstrings and the wire-format table: channel 0..4, duty 0..100,
\* clan 0..63, transition 0..7, switch 0..31, one byte otherwise).
Byte == << 0, 255 >>
Channel04 == << 0, 4 >>
Switch031 == << 0, 31 >>
Clan == << 0, 63 >>
Transition == << 0, 7 >>
Documented(op) ==
    CASE op = "encode_vsw_simple_action" -> << Switch031, Byte >>
      [] op = "encode_vsw_hsb" -> << Switch031, Byte, Byte, Byte, Byte >>
      [] op = "encode_vsw_custom_rgb" -> << Switch031, Byte, Byte, Byte >>
      [] op = "encode_vsw_delta_brightness" -> << Switch031, << -128, 127 >> >>
      [] op = "encode_vsw_pocofx_start" -> << Switch031, Byte >>
      [] op = "encode_outch_binary_channel" -> << Channel04, << 0, 1 >> >>
      [] op = "encode_outch_pwm_channel" -> << Channel04, << 0, 100 >> >>
      [] op = "encode_outch_pli_raw" -> << Channel04, << 0, 2147483647 >> >>
      [] op = "encode_outch_pli_t2hsb" ->
             << Channel04, Byte, << 0, 15 >>, << 0, 15 >>, Clan, Transition >>
      [] op = "encode_outch_pli_t2rgb" ->
             << Channel04, << 0, 31 >>, << 0, 31 >>, << 0, 31 >>, Clan, Transition >>
      [] op = "encode_outch_pli_t2hs" -> << Channel04, Byte, << 0, 15 >>, Clan, Transition >>
      [] op = "encode_outch_pli_t2b" -> << Channel04, Byte, Clan, Transition >>
      [] op = "encode_outch_pli_t2bd" -> << Channel04, << -127, 127 >>, Clan, Transition >>
      [] op = "encode_outch_pli_t2p" -> << Channel04, << 0, 253 >>, Clan, Transition >>
      [] op = "encode_outch_status_request" -> << Channel04 >>

\* The arguments clamped to the nearest bound of their documented ranges.
ClampedArgs(op, a) ==
    [ i \in 1..Len(a) |-> Clamp(Documented(op)[i][1], Documented(op)[i][2], a[i]) ]

\* C21 (encoding clamps and never fails), as claimed: every call of an
\* encoder returns without raising, returns exactly 8 bytes, and returns the
\* bytes the same encoder returns for the arguments clamped to the nearest
\* bound of their documented ranges.
C21_EncodingClamps ==
    call.op \in EncoderOps =>
        /\ result = "ok"
        /\ call.sent # None
        /\ Len(call.sent[1]) = 8
        /\ call.sent = encode(call.op, ClampedArgs(call.op, call.args))

\* The first three bytes of a Lumitec proprietary payload: the 16-bit
\* little-endian word of manufacturer code 1512 (11 bits), reserved bits 11
\* and industry code 4 (3 bits), then the PID.
HeaderOf(data, pid) ==
    /\ B(data, 0) + 256 * B(data, 1) = 1512 + 3 * 2048 + 4 * 8192
    /\ B(data, 2) = pid

\* The VSw custom HSB payload of the given fields.
HSBLayout(data, action, switch_id, hue, saturation, brightness) ==
    /\ Len(data) = 8
    /\ HeaderOf(data, 3)
    /\ B(data, 3) = action
    /\ B(data, 4) = switch_id
    /\ B(data, 5) = hue
    /\ B(data, 6) = saturation
    /\ B(data, 7) = brightness

InByte(a, indices) == \A i \in indices : a[i] \in 0..255

\* C22 (VSw custom HSB layout): for switch_id, hue, saturation and
\* brightness in 0..255 and an action among T2HSB=8, T2HS=9, T2B=10,
\* encode_vsw_hsb returns 8 bytes: the Lumitec/Marine header with reserved
\* bits 11 and PID 3, then action, switch_id, hue, saturation, brightness;
\* create_vsw_set_color_message returns that payload with action T2HSB.
C22_HSBLayout ==
    /\ (call.op = "encode_vsw_hsb" /\ InByte(call.args, { 1, 3, 4, 5 })
        /\ call.args[2] \in { 8, 9, 10 }) =>
           /\ result = "ok"
           /\ call.sent # None
           /\ HSBLayout(call.sent[1], call.args[2], call.args[1], call.args[3],
                        call.args[4], call.args[5])
    /\ (call.op = "create_vsw_set_color_message" /\ InByte(call.args, 1..4)) =>
           /\ result = "ok"
           /\ call.sent[2] # None
           /\ HSBLayout(call.sent[2][1], 8, call.args[1], call.args[2], call.args[3],
                        call.args[4])

\* The scenario of the protocol test: switch 2 to red, hue 0, saturation
\* 255, brightness 200.
C22_Witness ==
    /\ call.op = "encode_vsw_hsb"
    /\ call.args = << 2, T2HSB, 0, 255, 200 >>
    /\ call.sent = Some(<< 232, 157, 3, 8, 2, 0, 255, 200 >>)

\* A PGN the claim C23 speaks of: 17 bits, and a zero low byte when its PDU
\* format byte is below 240.
WellFormedPgn(p) ==
    /\ p \in 0..131071
    /\ ((p \div 256) % 256 < 240) => p % 256 = 0

\* The dispatcher's PGN normalisation of an identifier.  (Bit 31 of the
\* identifier is beyond the 18 bits the dispatcher reads.)
NormalisationOf(can_id) == normalized_pgn([ arbitration_id |-> can_id.id, data |-> << >> ])

\* C23 (CAN-ID round trip), as claimed: for a well-formed PGN p on data
\* page 0 or 1, a priority in 0..7 and addresses in 0..255, the identifier
\* calculate_pgn_can_id returns carries the priority in bits 26..28 and the
\* source in its low byte, and the dispatcher's normalisation of it is p.
C23_CanIdRoundTrip ==
    (/\ call.op = "calculate_pgn_can_id"
     /\ WellFormedPgn(call.args[1])
     /\ call.args[2] \in 0..7
     /\ call.args[3] \in 0..255
     /\ call.args[4] \in 0..255) =>
        /\ (call.sent.id \div 67108864) % 8 = call.args[2]
        /\ call.sent.id % 256 = call.args[3]
        /\ NormalisationOf(call.sent) = call.args[1]

\* The PID each decoder expects in the header.
ExpectedPid(op) ==
    CASE op = "decode_vsw_state_response" -> 2
      [] op = "decode_enumerate_response" -> 129
      [] op = "decode_outch_status" -> 32

\* A payload the decoder op has to turn down: shorter than 8 bytes, or with
\* a manufacturer code other than 1512, an industry code other than 4, or a
\* PID other than the expected one.
InvalidFor(op, data) ==
    \/ Len(data) < 8
    \/ (B(data, 0) + 256 * B(data, 1)) % 2048 # 1512
    \/ ((B(data, 0) + 256 * B(data, 1)) \div 8192) % 8 # 4
    \/ B(data, 2) # ExpectedPid(op)

\* C24 (decoding contract), as claimed: each of the three decoders returns
\* without raising; it returns None when the payload is shorter than 8 bytes
\* or its header's manufacturer code, industry code or PID is not the
\* expected one, and the populated value in every other case.
C24_DecodingContract ==
    call.op \in DecoderOps =>
        /\ result = "ok"
        /\ InvalidFor(call.op, call.args[1]) <=> call.sent = None

\* The part of C25 on which the claim and its example agree: 8 bytes, the
\* bank's low byte first, switch i of the first 28 in the two bits
\* (i mod 4) * 2 of byte 1 + (i div 4); and, for a bank in 0..255 and a
\* 28-long list over 0, 1, 3, the bank and the 28 states got back by the
\* bank-status decoding.
SwitchControlLayout ==
    call.op = "encode_binary_switch_control" =>
        LET bank == call.args[1]
            states == call.args[2]
            n == IF Len(states) < 28 THEN Len(states) ELSE 28
        IN  /\ result = "ok"
            /\ call.sent # None
            /\ Len(call.sent[1]) = 8
            /\ B(call.sent[1], 0) = bank % 256
            /\ \A i \in 0..(n - 1) :
                   (B(call.sent[1], 1 + (i \div 4)) \div (2 ^ ((i % 4) * 2))) % 4
                       = states[i + 1] % 4
            /\ (bank \in 0..255 /\ Len(states) = 28
                /\ \A i \in 1..28 : states[i] \in { 0, 1, 3 }) =>
                   /\ B(call.sent[1], 0) = bank
                   /\ BinaryStates(call.sent[1]) = states

\* Byte 1 of what encode_binary_switch_control(1, [1, 0, 1, 0]) returned.
ExampleByte1(value) ==
    (call.op = "encode_binary_switch_control" /\ call.args = << 1, << 1, 0, 1, 0 >> >>) =>
        B(call.sent[1], 1) = value

\* C25 as claimed: the layout and the round trip, and bank 1 with states
\* 1, 0, 1, 0 giving byte 1 = 0x05.
C25_Original == SwitchControlLayout /\ ExampleByte1(5)

\* C25 (binary switch bank control encoding), amended: the layout and the
\* round trip as claimed; bank 1 with states 1, 0, 1, 0 gives byte 1 =
\* 0x11 (switch 0 in bits 0-1, switch 2 in bits 4-5).
C25_SwitchControl == SwitchControlLayout /\ ExampleByte1(17)

\* The list of the protocol test: On, Off, On, Off, then NoChange.
C25_Witness ==
    /\ call.op = "encode_binary_switch_control"
    /\ call.args = << 1, << 1, 0, 1, 0 >> \o [ i \in 1..24 |-> 3 ] >>
    /\ call.sent = Some(<< 1, 17, 255, 255, 255, 255, 255, 255 >>)

\* C26 (PocoFx start payload as the protocol test asserts it): for a
\* switch_id in 0..31 and a pocofx_id in 0..255, encode_vsw_pocofx_start
\* returns exactly 8 bytes whose byte 3 is switch_id and whose byte 4 is
\* pocofx_id.
C26_PocoFxStart ==
    (/\ call.op = "encode_vsw_pocofx_start"
     /\ call.args[1] \in 0..31
     /\ call.args[2] \in 0..255) =>
        /\ result = "ok"
        /\ call.sent # None
        /\ Len(call.sent[1]) = 8
        /\ B(call.sent[1], 3) = call.args[1]
        /\ B(call.sent[1], 4) = call.args[2]

\* No other switch id in 0..31 gives the payload start_pocofx sent; no
\* other pattern in 0..253 gives the payload send_pli_t2p sent.
NoOtherSwitch(c) ==
    \A other \in 0..31 :
        other # c.args[1] =>
            encode_vsw_pocofx_start(other, c.args[2]) # Some(c.sent[1].data)
NoOtherPattern(c) ==
    \A other \in 0..253 :
        other # c.args[2] =>
            encode_outch_pli_t2p(c.args[1], other, c.args[3], c.args[4]) # Some(c.sent[1].data)

\* C27 (the identifier a caller passes is the identifier transmitted): on a
\* connected session, Level 2 start_pocofx(switch_id, pocofx_id) with
\* switch_id in 0..31 hands the bus one frame whose switch-id byte (byte 4)
\* is switch_id, Level 0 send_pli_t2p(channel, pattern) with pattern in
\* 0..253 hands the bus one frame whose byte 6 is pattern, and no call with
\* a different identifier gives the same payload.
C27_IdTransmitted ==
    [][ /\ (SendStep /\ call'.op = "start_pocofx" /\ call'.args[1] \in 0..31 /\ bus # 0) =>
               /\ Len(call'.sent) = 1
               /\ B(call'.sent[1].data, 4) = call'.args[1]
               /\ NoOtherSwitch(call')
        /\ (SendStep /\ call'.op = "send_pli_t2p" /\ call'.args[2] \in 0..253 /\ bus # 0) =>
               /\ Len(call'.sent) = 1
               /\ B(call'.sent[1].data, 6) = call'.args[2]
               /\ NoOtherPattern(call') ]_vars

\* How many times callback c of the given list was called for the frame.
TimesCalled(t, loop, c) ==
    Cardinality({ i \in 1..Len(t.log) : t.log[i][1] = loop /\ t.log[i][2] = c })

\* The loop the base handler runs for the frame of t: "enum" or "state" for
\* a frame it accepts, as the caches stood when the dispatch began.
BaseLoop(t) ==
    handle_message_impl(t.msg[1], poco_address, t.pre[1].sw, t.pre[1].dev).loop

\* C28 (exactly-once notification under registry changes), as claimed: for
\* each accepted frame, every callback that was registered when the dispatch
\* of the frame began and has not been removed during the dispatch has been
\* invoked exactly once for the frame when the dispatch is over, whether or
\* not another callback unregistered itself from inside its invocation or
\* the application added or removed callbacks meanwhile.
C28_ExactlyOnce ==
    \A n \in Finished :
        LET t == thread[n]
        IN  BaseLoop(t) \in { "enum", "state" } =>
                \A c \in Callbacks :
                    (/\ Contains(t.reg[1][BaseLoop(t)], c)
                     /\ << BaseLoop(t), c >> \notin t.removed) =>
                        TimesCalled(t, BaseLoop(t), c) = 1

\* C29 (no transport resource outlives the session), as claimed: once
\* disconnect has returned, and until connect is called again, every bus
\* the session opened has been shut down and every listener it started has
\* been stopped, also when connect was called on a connected session.
C29_NothingLeftOpen ==
    Returned =>
        /\ buses = {}
        /\ \A n \in DOMAIN notifiers : ~notifiers[n].running

\* The cache holds what the callback of log entry e is called with: the
\* reported SwitchState under its switch id, the reported device fields
\* under the sender's address, the reported 28 states under the bank.
CacheHolds(e) ==
    CASE e[1] = "state" -> Get(switch_states, e[4][1]) = Some(e[4][2])
      [] e[1] = "enum" ->
             /\ e[4][1] \in DOMAIN discovered_devices
             /\ \A f \in DOMAIN e[4][2] : discovered_devices[e[4][1]][f] = e[4][2][f]
      [] e[1] = "bin" -> Get(binary_switch_states, e[4][1]) = Some(e[4][2])
      [] OTHER -> TRUE

\* The device map has no entry for the address the enumeration callback of
\* log entry e is called with.
DeviceCleared(e) == e[1] = "enum" /\ e[4][1] \notin DOMAIN discovered_devices

\* The reader thread n calls a callback in this step: its log grows by the
\* entry of that call.
Invokes(n) ==
    /\ n \in DOMAIN thread'
    /\ Len(thread'[n].log) = Len(thread[n].log) + 1
    /\ thread'[n].log[Len(thread'[n].log)][1] \in { "state", "enum", "bin" }

\* The entry of the call made in the step.
Invoked(n) == thread'[n].log[Len(thread'[n].log)]

====
